---- MODULE Spec2Model ----
(***************************************************************************)
(* Model of the NLP-to-Manim pipeline (src/src/nlp_manim_pipeline.py), of   *)
(* the secured file operations (src/src/servers/file_operations_secured.py) *)
(* and of the context monitor (src/src/utils/context_monitor.py).           *)
(* Texts are strings handled character by character: Len, SubSeq and \o    *)
(* stand for Python's len, slicing and +.  The regular expressions of the  *)
(* parser are kept as syntax trees and matched by the operator Match.      *)
(***************************************************************************)
EXTENDS Integers, Sequences, FiniteSets, TLC

(***************************************************************************)
(* Bounds of the model.                                                    *)
(***************************************************************************)
\* number of fragments an input description is assembled from
MaxFrags == 2
\* number of invocations of process_animation_request that run concurrently
NumCalls == 2
\* decimal digits kept after the point by the model of float
FracDigits == 2

\* the file operations made
MaxOps == 1
\* add_message and wrap_tool_response are called MaxMessages times at most
MaxMessages == 6

(***************************************************************************)
(* Characters and strings.                                                 *)
(***************************************************************************)
Char(t, i) == SubSeq(t, i, i)

CharsOf(t) == {Char(t, k) : k \in 1..Len(t)}

Max(S) == CHOOSE x \in S : \A y \in S : y <= x

Min(S) == CHOOSE x \in S : \A y \in S : x <= y

LowerLetters == "abcdefghijklmnopqrstuvwxyzöé"

UpperLetters == "ABCDEFGHIJKLMNOPQRSTUVWXYZÖÉ"

Digits == "0123456789"

DigitSet == CharsOf(Digits)

\* str.isspace() characters that a TLA+ string can hold
SpaceSet == {" ", "\t", "\n", "\r", "\f"}

\* \w of a str pattern: alphanumerics (str.isalnum) and the underscore.
\* Texts are over the Latin-1 characters, so the superscript four is absent.
WordSet == CharsOf(LowerLetters) \cup CharsOf(UpperLetters) \cup DigitSet
             \cup {"_", "²", "³"}

LowerMap == [c \in CharsOf(UpperLetters) |->
               Char(LowerLetters, CHOOSE k \in 1..Len(UpperLetters) : Char(UpperLetters, k) = c)]

LowerChar(c) == IF c \in DOMAIN LowerMap THEN LowerMap[c] ELSE c

RECURSIVE Lower(_)
\* str.lower()
Lower(t) == IF Len(t) = 0 THEN ""
            ELSE IF Len(t) = 1 THEN LowerChar(t)
            ELSE LET h == Len(t) \div 2
                 IN  Lower(SubSeq(t, 1, h)) \o Lower(SubSeq(t, h + 1, Len(t)))

\* str.strip(chars): drop the characters of cs from both ends
StripChars(t, cs) ==
  LET keep == {k \in 1..Len(t) : Char(t, k) \notin cs}
  IN  IF keep = {} THEN "" ELSE SubSeq(t, Min(keep), Max(keep))

\* str.strip()
Strip(t) == StripChars(t, SpaceSet)

\* text[i:].startswith(lit), i counted from 1
StartsAt(t, i, lit) ==
  /\ i + Len(lit) - 1 <= Len(t)
  /\ SubSeq(t, i, i + Len(lit) - 1) = lit

\* lit in text
Contains(t, lit) == \E i \in 1..(Len(t) - Len(lit) + 1) : StartsAt(t, i, lit)

\* text.find(lit): position counted from 0, -1 when absent
Find(t, lit) ==
  LET hits == {i \in 1..(Len(t) - Len(lit) + 1) : StartsAt(t, i, lit)}
  IN  IF hits = {} THEN -1 ELSE Min(hits) - 1

\* text[a:b] with 0 <= a, positions counted from 0
Slice(t, a, b) == IF b <= a THEN "" ELSE SubSeq(t, a + 1, b)

RECURSIVE Split(_, _)
\* str.split(sep) for a separator of one character
Split(t, sep) ==
  LET hits == {i \in 1..Len(t) : Char(t, i) = sep}
  IN  IF hits = {} THEN <<t>>
      ELSE LET i == Min(hits)
           IN  <<SubSeq(t, 1, i - 1)>> \o Split(SubSeq(t, i + 1, Len(t)), sep)

RECURSIVE Join(_, _)
\* sep.join(parts)
Join(parts, sep) ==
  IF Len(parts) = 0 THEN ""
  ELSE IF Len(parts) = 1 THEN parts[1]
  ELSE parts[1] \o sep \o Join(Tail(parts), sep)

(***************************************************************************)
(* Regular expressions (module re).  A pattern is a syntax tree; Match     *)
(* gives every position at which a match that starts at position i can     *)
(* end.  re.IGNORECASE is used on text that parse() has lowercased, so a   *)
(* literal is compared in lower case.                                      *)
(***************************************************************************)
\* a literal, compiled under re.IGNORECASE
Lit(s) == [op |-> "lit", s |-> Lower(s)]

Cls(cs) == [op |-> "cls", cs |-> cs]

Cat(rs) == [op |-> "cat", rs |-> rs]

Alt(rs) == [op |-> "alt", rs |-> rs]

Opt(r) == [op |-> "opt", r |-> r]

Star(r) == [op |-> "star", r |-> r]

Plus(r) == [op |-> "plus", r |-> r]

\* the pattern "." : any character but a newline
AnyChar == [op |-> "any"]

RECURSIVE Match(_, _, _)
RECURSIVE MatchCat(_, _, _, _)
RECURSIVE Closure(_, _, _, _)
Match(r, t, i) ==
  CASE r.op = "lit"  -> IF StartsAt(t, i, r.s) THEN {i + Len(r.s)} ELSE {}
    [] r.op = "cls"  -> IF i <= Len(t) /\ Char(t, i) \in r.cs THEN {i + 1} ELSE {}
    [] r.op = "any"  -> IF i <= Len(t) /\ Char(t, i) # "\n" THEN {i + 1} ELSE {}
    [] r.op = "cat"  -> MatchCat(r.rs, 1, t, {i})
    [] r.op = "alt"  -> UNION {Match(r.rs[k], t, i) : k \in DOMAIN r.rs}
    [] r.op = "opt"  -> {i} \cup Match(r.r, t, i)
    [] r.op = "star" -> Closure(r.r, t, {i}, {i})
    [] r.op = "plus" -> LET first == Match(r.r, t, i)
                        IN  Closure(r.r, t, first, first)

MatchCat(rs, k, t, from) ==
  IF k > Len(rs) \/ from = {} THEN from
  ELSE MatchCat(rs, k + 1, t, UNION {Match(rs[k], t, j) : j \in from})

Closure(r, t, frontier, seen) ==
  LET next == UNION {Match(r, t, j) : j \in frontier} \ seen
  IN  IF next = {} THEN seen ELSE Closure(r, t, next, seen \cup next)

\* re.search(pattern, text) is not None
Search(r, t) == \E i \in 1..(Len(t) + 1) : Match(r, t, i) # {}

\* start of the leftmost match at or after position from; 0 when none
FirstStart(r, t, from) ==
  LET starts == {i \in from..(Len(t) + 1) : Match(r, t, i) # {}}
  IN  IF starts = {} THEN 0 ELSE Min(starts)

RECURSIVE FindIterFrom(_, _, _)
\* the match that spans positions s to e (exclusive), and those after it
FindIterSpan(r, t, s, e) ==
  <<(<<s, e>>)>> \o FindIterFrom(r, t, IF e > s THEN e ELSE e + 1)

\* the matches from the leftmost one, which starts at s (0: there is none).
\* The quantifiers are greedy, so a match ends as far right as it can.
FindIterAt(r, t, s) ==
  IF s = 0 THEN <<>> ELSE FindIterSpan(r, t, s, Max(Match(r, t, s)))

FindIterFrom(r, t, from) == FindIterAt(r, t, FirstStart(r, t, from))

\* re.finditer: the non-overlapping matches from left to right, as
\* <<start, end>> with positions counted from 1 and end exclusive
FindIter(r, t) == FindIterFrom(r, t, 1)

(***************************************************************************)
(* Numbers.  A float is [neg, mag]: its sign and its magnitude counted in  *)
(* units of 10^-FracDigits.  The model is exact for decimal literals of at *)
(* most FracDigits fractional digits; the descriptions use no others.      *)
(***************************************************************************)
RECURSIVE Pow10(_)
Pow10(n) == IF n = 0 THEN 1 ELSE 10 * Pow10(n - 1)

Scale == Pow10(FracDigits)

DigitValue(c) == (CHOOSE k \in 1..10 : Char(Digits, k) = c) - 1

RECURSIVE DigitsToNat(_)
\* value of a string of decimal digits ("" counts 0)
DigitsToNat(s) ==
  IF Len(s) = 0 THEN 0
  ELSE 10 * DigitsToNat(SubSeq(s, 1, Len(s) - 1)) + DigitValue(Char(s, Len(s)))

RECURSIVE NatToStr(_)
NatToStr(n) ==
  IF n < 10 THEN Char(Digits, n + 1)
  ELSE NatToStr(n \div 10) \o Char(Digits, (n % 10) + 1)

\* the fractional digits of s, cut or padded with zeros to FracDigits digits
PadFrac(s) ==
  IF Len(s) >= FracDigits THEN SubSeq(s, 1, FracDigits)
  ELSE s \o SubSeq("0000000000", 1, FracDigits - Len(s))

\* a literal without its sign
Unsigned(u) == IF StartsAt(u, 1, "-") THEN SubSeq(u, 2, Len(u)) ELSE u

\* digits with at most one point and at least one digit
IsFloatBody(body) ==
  /\ Len(body) > 0
  /\ \A k \in 1..Len(body) : Char(body, k) \in DigitSet \cup {"."}
  /\ Cardinality({k \in 1..Len(body) : Char(body, k) = "."}) <= 1
  /\ \E k \in 1..Len(body) : Char(body, k) \in DigitSet

\* float(s) accepts s: blanks around an optional sign and a body (s is made
\* of the characters a coordinate can hold)
IsFloatLiteral(s) == IsFloatBody(Unsigned(Strip(s)))

\* the float of a sign and the digits before and after the point
FloatValue(neg, parts) ==
  [neg |-> neg,
   mag |-> DigitsToNat(parts[1]) * Scale
           + DigitsToNat(PadFrac(IF Len(parts) > 1 THEN parts[2] ELSE ""))]

\* float(s) for a literal that IsFloatLiteral accepts
ParseFloat(s) == FloatValue(StartsAt(Strip(s), 1, "-"), Split(Unsigned(Strip(s)), "."))

FloatOf(n) == [neg |-> FALSE, mag |-> n * Scale]

\* repr(x) of a float: the digits before the point, the point, and the
\* fractional digits without trailing zeros (one digit at least)
Repr(x) ==
  LET digits == NatToStr(x.mag % Scale)
      cut    == StripChars("1" \o SubSeq("0000000000", 1, FracDigits - Len(digits))
                               \o digits, {"0"})
  IN  (IF x.neg THEN "-" ELSE "") \o NatToStr(x.mag \div Scale) \o "."
      \o (IF Len(cut) = 1 THEN "0" ELSE SubSeq(cut, 2, Len(cut)))

\* repr of a list of floats
ReprList(xs) == "[" \o Join([k \in DOMAIN xs |-> Repr(xs[k])], ", ") \o "]"

\* numpy.linalg.norm(xs) >= 1, decided on the squares
NormAtLeastOne(xs) ==
  LET RECURSIVE SumSq(_)
      SumSq(k) == IF k = 0 THEN 0 ELSE xs[k].mag * xs[k].mag + SumSq(k - 1)
  IN  SumSq(Len(xs)) >= Scale * Scale

(***************************************************************************)
(* AnimationType and the tables of NLPAnimationParser.__init__.            *)
(***************************************************************************)
GEOMETRIC_TRANSFORM == "geometric_transform"

VECTOR_OPERATION == "vector_operation"

MANIFOLD_VISUALIZATION == "manifold_visualization"

FIELD_DYNAMICS == "field_dynamics"

ALGEBRAIC_STRUCTURE == "algebraic_structure"

AnimationType == {GEOMETRIC_TRANSFORM, VECTOR_OPERATION, MANIFOLD_VISUALIZATION,
                  FIELD_DYNAMICS, ALGEBRAIC_STRUCTURE}

\* \s
Ws == Cls(SpaceSet)

\* \d
Dg == Cls(DigitSet)

\* [\d.,\s-]
CoordChar == Cls(DigitSet \cup SpaceSet \cup {".", ",", "-"})

\* the dict self.concept_patterns, in insertion order
concept_patterns == <<
  [concept |-> "stereographic_projection", patterns |-> <<
     \* stereo(?:graphic)?\s+project(?:ed|ion)?
     Cat(<<Lit("stereo"), Opt(Lit("graphic")), Plus(Ws), Lit("project"),
           Opt(Alt(<<Lit("ed"), Lit("ion")>>))>>),
     \* project\s+.*\s+(?:on|onto)\s+.*\s+plane
     Cat(<<Lit("project"), Plus(Ws), Star(AnyChar), Plus(Ws),
           Alt(<<Lit("on"), Lit("onto")>>), Plus(Ws), Star(AnyChar), Plus(Ws),
           Lit("plane")>>) >>],
  [concept |-> "gyrovector_operation", patterns |-> <<
     \* gyro(?:addition|scalar|distance|parallel)
     Cat(<<Lit("gyro"), Alt(<<Lit("addition"), Lit("scalar"), Lit("distance"),
                              Lit("parallel")>>)>>),
     \* (?:add|multiply|transport)\s+.*\s+gyrovector
     Cat(<<Alt(<<Lit("add"), Lit("multiply"), Lit("transport")>>), Plus(Ws),
           Star(AnyChar), Plus(Ws), Lit("gyrovector")>>) >>],
  [concept |-> "rotation", patterns |-> <<
     \* rotate\s+.*\s+(?:around|about|relative)
     Cat(<<Lit("rotate"), Plus(Ws), Star(AnyChar), Plus(Ws),
           Alt(<<Lit("around"), Lit("about"), Lit("relative")>>)>>),
     \* (?:spin|turn)\s+.*\s+(?:by|through)
     Cat(<<Alt(<<Lit("spin"), Lit("turn")>>), Plus(Ws), Star(AnyChar), Plus(Ws),
           Alt(<<Lit("by"), Lit("through")>>)>>) >>],
  [concept |-> "mobius_transformation", patterns |-> <<
     \* (?:mobius|möbius)\s+transform
     Cat(<<Alt(<<Lit("mobius"), Lit("möbius")>>), Plus(Ws), Lit("transform")>>),
     \* conformal\s+map
     Cat(<<Lit("conformal"), Plus(Ws), Lit("map")>>) >>],
  [concept |-> "hyperbolic_space", patterns |-> <<
     \* (?:poincaré|klein|hyperboloid)\s+(?:disk|ball|model)
     Cat(<<Alt(<<Lit("poincaré"), Lit("klein"), Lit("hyperboloid")>>), Plus(Ws),
           Alt(<<Lit("disk"), Lit("ball"), Lit("model")>>)>>),
     \* hyperbolic\s+(?:plane|space|geometry)
     Cat(<<Lit("hyperbolic"), Plus(Ws),
           Alt(<<Lit("plane"), Lit("space"), Lit("geometry")>>)>>) >>] >>

\* the dict self.object_patterns, in insertion order.  Every pattern is
\* deterministic (no ".", no overlapping alternatives), so a match that
\* starts at a position has one possible end.
object_patterns == <<
  \* S[²³⁴]?\s*sphere|(?:unit\s+)?sphere
  [type |-> "sphere", pattern |->
     Alt(<<Cat(<<Lit("S"), Opt(Cls({"²", "³"})), Star(Ws), Lit("sphere")>>),
           Cat(<<Opt(Cat(<<Lit("unit"), Plus(Ws)>>)), Lit("sphere")>>)>>)],
  \* (?:polar|complex|euclidean)?\s*plane
  [type |-> "plane", pattern |->
     Cat(<<Opt(Alt(<<Lit("polar"), Lit("complex"), Lit("euclidean")>>)), Star(Ws),
           Lit("plane")>>)],
  \* \[[\d.,\s-]+\]|vector\s*\([\d.,\s-]+\)
  [type |-> "vector", pattern |->
     Alt(<<Cat(<<Lit("["), Plus(CoordChar), Lit("]")>>),
           Cat(<<Lit("vector"), Star(Ws), Lit("("), Plus(CoordChar), Lit(")")>>)>>)],
  \* point\s*(?:at\s*)?\([\d.,\s-]+\)
  [type |-> "point", pattern |->
     Cat(<<Lit("point"), Star(Ws), Opt(Cat(<<Lit("at"), Star(Ws)>>)), Lit("("),
           Plus(CoordChar), Lit(")")>>)],
  \* (?:manifold|surface|space)
  [type |-> "manifold", pattern |->
     Alt(<<Lit("manifold"), Lit("surface"), Lit("space")>>)] >>

(***************************************************************************)
(* NLPAnimationParser.                                                     *)
(***************************************************************************)
RECURSIVE Flatten(_)
\* the concatenation of a list of lists
Flatten(ss) == IF Len(ss) = 0 THEN <<>> ELSE Head(ss) \o Flatten(Tail(ss))

\* a dict without entries
EmptyDict == [k \in {} |-> TRUE]

\* what the if/elif chain of _detect_animation_type returns for a concept
\* whose pattern matched: <<type>>, or <<>> when no branch returns
ConceptReturn(concept) ==
  IF Contains(concept, "stereo") \/ Contains(concept, "mobius") THEN <<GEOMETRIC_TRANSFORM>>
  ELSE IF Contains(concept, "gyro") THEN <<VECTOR_OPERATION>>
  ELSE IF Contains(concept, "hyperbolic") THEN <<MANIFOLD_VISUALIZATION>>
  ELSE <<>>

\* the type returned for the entries of concept_patterns that match and return
DetectedType(returning) ==
  IF returning = {} THEN GEOMETRIC_TRANSFORM
  ELSE ConceptReturn(concept_patterns[Min(returning)].concept)[1]

_detect_animation_type(text) ==
  DetectedType({k \in DOMAIN concept_patterns :
                  /\ \E j \in DOMAIN concept_patterns[k].patterns :
                        Search(concept_patterns[k].patterns[j], text)
                  /\ ConceptReturn(concept_patterns[k].concept) # <<>>})

\* [float(x.strip()) for x in parts]: <<list>>, or <<>> when float raises
FloatsOf(parts) ==
  IF \A k \in DOMAIN parts : IsFloatLiteral(parts[k])
  THEN <<[k \in DOMAIN parts |-> ParseFloat(parts[k])]>>
  ELSE <<>>

\* _parse_coordinates: <<list of floats>>, or <<>> for None
_parse_coordinates(coord_str) ==
  FloatsOf(Split(StripChars(coord_str, {"[", "]", "(", ")", " "}), ","))

\* if coords: obj["coordinates"] = coords
WithCoordinates(obj, coords) ==
  IF coords # <<>> /\ Len(coords[1]) > 0
  THEN obj @@ ("coordinates" :> coords[1])
  ELSE obj

\* the object that _extract_objects builds for a match with text value
MatchObject(obj_type, value, span) ==
  WithCoordinates([type |-> obj_type, value |-> value,
                   position |-> <<span[1] - 1, span[2] - 1>>],
                  IF obj_type \in {"vector", "point"} THEN _parse_coordinates(value)
                  ELSE <<>>)

\* the objects of the matches of one pattern
MatchObjects(obj_type, text, matches) ==
  [m \in DOMAIN matches |->
     MatchObject(obj_type, SubSeq(text, matches[m][1], matches[m][2] - 1), matches[m])]

_extract_objects(text) ==
  Flatten([k \in DOMAIN object_patterns |->
             MatchObjects(object_patterns[k].type, text,
                          FindIter(object_patterns[k].pattern, text))])

\* the dict transform_keywords of _extract_transformations, as the list of
\* its (type, keyword) pairs in iteration order
transform_keywords == <<
  <<"rotation", "rotate">>, <<"rotation", "spin">>, <<"rotation", "turn">>,
  <<"projection", "project">>, <<"projection", "map">>,
  <<"translation", "move">>, <<"translation", "shift">>, <<"translation", "translate">>,
  <<"scaling", "scale">>, <<"scaling", "resize">>, <<"scaling", "zoom">> >>

\* characters of context taken on each side of a keyword
ContextWindow == 50

\* (\d+(?:\.\d+)?)
NumberRe == Cat(<<Plus(Dg), Opt(Cat(<<Lit("."), Plus(Dg)>>))>>)

\* \s*(?:degree|rad|°)
AngleUnitRe == Cat(<<Star(Ws), Alt(<<Lit("degree"), Lit("rad"), Lit("°")>>)>>)

\* \s*(?:second|sec)s?
DurationUnitRe == Cat(<<Star(Ws), Alt(<<Lit("second"), Lit("sec")>>), Opt(Lit("s"))>>)

\* the match of a number from s to e1 and a unit after it
NumberUnitSpan(unitRe, t, s, e1) ==
  <<[number |-> SubSeq(t, s, e1 - 1),
     whole  |-> SubSeq(t, s, Max(Match(unitRe, t, e1)) - 1)]>>

\* The quantifiers are greedy: the number is as long as the unit allows.
NumberUnitAt(unitRe, t, s) ==
  IF s = 0 THEN <<>>
  ELSE NumberUnitSpan(unitRe, t, s,
                      Max({e \in Match(NumberRe, t, s) : Match(unitRe, t, e) # {}}))

\* re.search of a number followed by a unit: <<>> when there is no match,
\* else <<[number, whole]>>, the text of group 1 and of the whole match
SearchNumberUnit(unitRe, t) ==
  NumberUnitAt(unitRe, t, FirstStart(Cat(<<NumberRe, unitRe>>), t, 1))

\* (?:relative to|around)\s+
RefHeadRe == Cat(<<Alt(<<Lit("relative to"), Lit("around")>>), Plus(Ws)>>)

\* (?:relative to|around)\s+the\s+
RefHeadTheRe == Cat(<<RefHeadRe, Lit("the"), Plus(Ws)>>)

\* the positions after a match of headRe from s where a word starts
WordStarts(headRe, t, s) ==
  {j \in Match(headRe, t, s) : Match(Cls(WordSet), t, j) # {}}

\* the word of (\w+) from position j, as long as it can be
WordAt(t, j) == <<SubSeq(t, j, Max(Match(Plus(Cls(WordSet)), t, j)) - 1)>>

\* The optional "the" is taken when a word follows it.
ReferenceAt(t, s) ==
  IF s = 0 THEN <<>>
  ELSE IF WordStarts(RefHeadTheRe, t, s) # {}
  THEN WordAt(t, Max(WordStarts(RefHeadTheRe, t, s)))
  ELSE WordAt(t, Max(WordStarts(RefHeadRe, t, s)))

\* re.search of (?:relative to|around)\s+(?:the\s+)?(\w+): <<>> when there
\* is no match, else <<group 1>>
SearchReference(t) ==
  ReferenceAt(t, FirstStart(Cat(<<RefHeadRe, Cls(WordSet)>>), t, 1))

\* Context taking only the characters before the keyword
Context_Before(text, keyword_pos) ==
  Slice(text,
        IF keyword_pos - ContextWindow > 0 THEN keyword_pos - ContextWindow ELSE 0,
        keyword_pos)

\* text[max(0, keyword_pos-50):min(len(text), keyword_pos+50)]
Context(text, keyword_pos) ==
  Slice(text,
        IF keyword_pos - ContextWindow > 0 THEN keyword_pos - ContextWindow ELSE 0,
        IF keyword_pos + ContextWindow < Len(text) THEN keyword_pos + ContextWindow
        ELSE Len(text))

\* params["angle"], params["unit"] of an angle match
AngleParams(angle_match) ==
  IF angle_match = <<>> THEN EmptyDict
  ELSE ("angle" :> ParseFloat(angle_match[1].number))
       @@ ("unit" :> IF Contains(angle_match[1].whole, "°") THEN "degrees" ELSE "radians")

\* params["reference"] of a reference match
ReferenceParams(ref_match) ==
  IF ref_match = <<>> THEN EmptyDict ELSE ("reference" :> ref_match[1])

\* the params extracted from the context of a keyword
ContextParams(keyword, context) ==
  AngleParams(IF keyword \in {"rotate", "spin", "turn"}
              THEN SearchNumberUnit(AngleUnitRe, context) ELSE <<>>)
  @@ ReferenceParams(IF Contains(context, "relative to") \/ Contains(context, "around")
                     THEN SearchReference(context) ELSE <<>>)

_extract_transform_params(text, keyword) ==
  ContextParams(keyword, Context(text, Find(text, keyword)))

RECURSIVE TransformsFrom(_, _)
\* the transformations of the keywords from the k-th on
TransformsFrom(text, k) ==
  IF k > Len(transform_keywords) THEN <<>>
  ELSE (IF Contains(text, transform_keywords[k][2])
        THEN <<[type |-> transform_keywords[k][1],
                keyword |-> transform_keywords[k][2],
                parameters |-> _extract_transform_params(text, transform_keywords[k][2])]>>
        ELSE <<>>) \o TransformsFrom(text, k + 1)

\* _extract_transformations keeping one entry for each type: the entry of
\* the first keyword of the type that the text holds
_extract_transformations_OnePerType(text) ==
  LET all == TransformsFrom(text, 1)
  IN  SelectSeq(all, LAMBDA transform :
                  \E k \in DOMAIN all :
                    /\ all[k] = transform
                    /\ \A j \in 1..(k - 1) : all[j].type # transform.type)

_extract_transformations(text) == TransformsFrom(text, 1)

\* Duration with the default of the generated scenes, 5 seconds, in place of 3
Duration_DefaultFive(duration_match) ==
  IF duration_match # <<>> THEN ParseFloat(duration_match[1].number) ELSE FloatOf(5)

\* params["duration"]
Duration(duration_match) ==
  IF duration_match # <<>> THEN ParseFloat(duration_match[1].number) ELSE FloatOf(3)

\* _extract_parameters testing the keywords of preview before those of 4k,
\* and those of minimalist before those of artistic
_extract_parameters_LastRuleFirst(text) ==
  [duration |-> Duration(SearchNumberUnit(DurationUnitRe, text)),
   quality  |-> IF Contains(text, "preview") \/ Contains(text, "quick")
                THEN "preview"
                ELSE IF \E word \in {"4k", "high quality", "ultra"} : Contains(text, word)
                THEN "4k" ELSE "standard",
   style    |-> IF Contains(text, "minimal") \/ Contains(text, "simple")
                THEN "minimalist"
                ELSE IF Contains(text, "artistic") \/ Contains(text, "beautiful")
                THEN "artistic" ELSE "academic"]

_extract_parameters(text) ==
  [duration |-> Duration(SearchNumberUnit(DurationUnitRe, text)),
   quality  |-> IF \E word \in {"4k", "high quality", "ultra"} : Contains(text, word)
                THEN "4k"
                ELSE IF Contains(text, "preview") \/ Contains(text, "quick")
                THEN "preview" ELSE "standard",
   style    |-> IF Contains(text, "artistic") \/ Contains(text, "beautiful")
                THEN "artistic"
                ELSE IF Contains(text, "minimal") \/ Contains(text, "simple")
                THEN "minimalist" ELSE "academic"]

\* len(v.get("coordinates", [])) of the vectors among the objects
Dimensions(objects) ==
  {IF "coordinates" \in DOMAIN objects[k] THEN Len(objects[k].coordinates) ELSE 0 :
     k \in {j \in DOMAIN objects : objects[j].type = "vector"}}

\* _validate_request comparing the number of dimensions with 2 in place of 1
_validate_request_MoreThanTwo(objects, transformations, parameters) ==
  IF /\ \E k \in DOMAIN transformations :
           transformations[k].type = "stereographic_projection"
     /\ \A k \in DOMAIN objects : ~Contains(objects[k].type, "sphere")
  THEN <<"Stereographic projection requires a sphere object">>
  ELSE IF Cardinality(Dimensions(objects)) > 2
  THEN <<"All vectors must have the same dimension">>
  ELSE <<>>

\* _validate_request: <<>> when it returns, <<message>> when it raises ValueError
_validate_request(objects, transformations, parameters) ==
  IF /\ \E k \in DOMAIN transformations :
           transformations[k].type = "stereographic_projection"
     /\ \A k \in DOMAIN objects : ~Contains(objects[k].type, "sphere")
  THEN <<"Stereographic projection requires a sphere object">>
  ELSE IF Cardinality(Dimensions(objects)) > 1
  THEN <<"All vectors must have the same dimension">>
  ELSE <<>>

\* the end of parse: the exception of _validate_request, or the request
Assemble(raised, request) ==
  IF raised # <<>> THEN [raised |-> raised, request |-> <<>>]
  ELSE [raised |-> <<>>, request |-> <<request>>]

\* parse after the extraction
Extracted(description, animation_type, objects, transformations, parameters) ==
  Assemble(_validate_request(objects, transformations, parameters),
           [description |-> description,
            animation_type |-> animation_type,
            objects |-> objects,
            transformations |-> transformations,
            parameters |-> parameters,
            validation_required |-> TRUE])

\* parse after the normalisation
Normalized(description) ==
  Extracted(description,
            _detect_animation_type(description),
            _extract_objects(description),
            _extract_transformations(description),
            _extract_parameters(description))

\* parse: [raised |-> <<>>, request |-> <<AnimationRequest>>], or
\* [raised |-> <<message>>, request |-> <<>>] when _validate_request raises
parse(raw) == Normalized(Strip(Lower(raw)))

(***************************************************************************)
(* ManimCodeGenerator.                                                     *)
(***************************************************************************)
\* the dict of _load_templates
_load_templates ==
  ("stereographic_projection" :>
     ("\n"
      \o "        # Stereographic projection setup\n"
      \o "        sphere = Sphere(radius=2, resolution=(30, 30))\n"
      \o "        sphere.set_color(BLUE_E)\n"
      \o "        \n"
      \o "        # Create projection plane\n"
      \o "        plane = Square(side_length=6).rotate(PI/2, RIGHT)\n"
      \o "        plane.shift(3*DOWN)\n"
      \o "        plane.set_fill(GRAY, opacity=0.3)\n"
      \o "        \n"
      \o "        # Projection mapping function\n"
      \o "        def stereo_project(point):\n"
      \o "            x, y, z = point\n"
      \o "            if z >= 0.99:  # Handle north pole\n"
      \o "                return np.array([0, 0, -3])\n"
      \o "            factor = 1 / (1 - z)\n"
      \o "            return np.array([factor * x, factor * y, -3])\n"
      \o "        "))
  @@
  ("gyrovector_addition" :>
     ("\n"
      \o "        # Gyrovector addition in Poincaré disk\n"
      \o "        disk = Circle(radius=3, color=WHITE)\n"
      \o "        \n"
      \o "        # Convert to Poincaré disk coordinates\n"
      \o "        def to_poincare(v):\n"
      \o "            norm = np.linalg.norm(v)\n"
      \o "            if norm >= 1:\n"
      \o "                return 0.99 * v / norm\n"
      \o "            return v\n"
      \o "        \n"
      \o "        # Gyroaddition formula\n"
      \o "        def gyro_add(u, v):\n"
      \o "            u_norm_sq = np.dot(u, u)\n"
      \o "            v_norm_sq = np.dot(v, v)\n"
      \o "            uv_dot = np.dot(u, v)\n"
      \o "            \n"
      \o "            denominator = 1 + 2*uv_dot + u_norm_sq * v_norm_sq\n"
      \o "            numerator_u = (1 + 2*uv_dot + v_norm_sq) * u\n"
      \o "            numerator_v = (1 - u_norm_sq) * v\n"
      \o "            \n"
      \o "            return (numerator_u + numerator_v) / denominator\n"
      \o "        "))

\* dict.get(key, default)
Get(dict, key, default) == IF key \in DOMAIN dict THEN dict[key] ELSE default

_select_template(request) ==
  LET templates == _load_templates
      projecting == {k \in DOMAIN request.transformations :
                       Contains(Get(request.transformations[k], "keyword", ""), "project")}
  IN  IF request.animation_type = GEOMETRIC_TRANSFORM
      THEN IF projecting # {} THEN Get(templates, "stereographic_projection", "") ELSE ""
      ELSE IF request.animation_type = VECTOR_OPERATION
      THEN Get(templates, "gyrovector_addition", "")
      ELSE ""

\* scene setup that is the template selected for the request
_generate_scene_setup_Template(request) == _select_template(request)

_generate_scene_setup(request) ==
  LET camera == IF request.animation_type = MANIFOLD_VISUALIZATION
                THEN <<("\n"
                   \o "        # 3D camera setup\n"
                   \o "        self.set_camera_orientation(phi=75*DEGREES, theta=-45*DEGREES)\n"
                   \o "        self.begin_ambient_camera_rotation(rate=0.1)\n"
                   \o "        ")>>
                ELSE <<>>
      light  == IF Get(request.parameters, "style", "") = "artistic"
                THEN <<("\n"
                   \o "        # Artistic lighting\n"
                   \o "        self.camera.background_color = \"#1e1e2e\"\n"
                   \o "        ")>>
                ELSE <<>>
  IN  Join(camera \o light, "\n")

\* the snippet _generate_objects appends for an object and its name, as a
\* list of no or one string
ObjectSnippet(obj_name, obj) ==
      IF obj.type = "sphere"
      THEN <<"\n"
             \o "        " \o obj_name \o " = Sphere(radius=2, resolution=(30, 30))\n"
             \o "        " \o obj_name \o ".set_color(BLUE_E)\n"
             \o "        self.add(" \o obj_name \o ")\n"
             \o "        ">>
      ELSE IF obj.type = "vector" /\ "coordinates" \in DOMAIN obj
      THEN <<"\n"
             \o "        " \o obj_name \o "_coords = " \o ReprList(obj.coordinates) \o "\n"
             \o "        " \o obj_name \o " = Arrow3D(ORIGIN, " \o obj_name
             \o "_coords, color=YELLOW)\n"
             \o "        self.add(" \o obj_name \o ")\n"
             \o "        ">>
      ELSE IF obj.type = "plane"
      THEN <<"\n"
             \o "        " \o obj_name \o " = Square(side_length=6).rotate(PI/2, RIGHT)\n"
             \o "        " \o obj_name \o ".shift(3*DOWN)\n"
             \o "        " \o obj_name \o ".set_fill(GRAY, opacity=0.3)\n"
             \o "        self.add(" \o obj_name \o ")\n"
             \o "        ">>
      ELSE <<>>

_generate_objects(objects) ==
  Join(Flatten([k \in DOMAIN objects |->
                  ObjectSnippet("obj_" \o NatToStr(k - 1), objects[k])]), "\n")

\* the snippet _generate_transformations appends for one transformation
\* angle_rad of the rotation snippet, for the text of the angle and the unit
AngleRad(angle, unit) == IF unit = "degrees" THEN angle \o "*DEGREES" ELSE angle

TransformSnippet(transform) ==
  IF transform.type = "rotation"
  THEN <<"\n"
         \o "        # Rotation animation\n"
         \o "        self.play(\n"
         \o "            Rotate(obj_0, "
         \o AngleRad(IF "angle" \in DOMAIN transform.parameters
                     THEN Repr(transform.parameters.angle) ELSE "360",
                     Get(transform.parameters, "unit", "degrees"))
         \o ", axis=UP, about_point=ORIGIN),\n"
         \o "            run_time=3\n"
         \o "        )\n"
         \o "        ">>
  ELSE IF transform.type = "projection"
  THEN <<("\n"
      \o "        # Stereographic projection animation\n"
      \o "        projected_points = []\n"
      \o "        for point in sphere.get_points():\n"
      \o "            projected = stereo_project(point)\n"
      \o "            projected_points.append(projected)\n"
      \o "        \n"
      \o "        # Animate projection\n"
      \o "        self.play(\n"
      \o "            *[Transform(\n"
      \o "                Dot(point), \n"
      \o "                Dot(projected)\n"
      \o "            ) for point, projected in zip(\n"
      \o "                sphere.get_points()[::10], \n"
      \o "                projected_points[::10]\n"
      \o "            )],\n"
      \o "            run_time=4\n"
      \o "        )\n"
      \o "        ")>>
  ELSE <<>>

_generate_transformations(transformations, objects) ==
  Join(Flatten([k \in DOMAIN transformations |-> TransformSnippet(transformations[k])]), "\n")

generate(request) ==
  LET template       == _select_template(request)
      scene_code     == _generate_scene_setup(request)
      object_code    == _generate_objects(request.objects)
      transform_code == _generate_transformations(request.transformations, request.objects)
  IN  "\n"
      \o "from manim import *\n"
      \o "import numpy as np\n"
      \o "from math import *\n"
      \o "\n"
      \o "class GeneratedAnimation(ThreeDScene):\n"
      \o "    def construct(self):\n"
      \o "        " \o scene_code
      \o "\n"
      \o "        \n"
      \o "        # Create objects\n"
      \o "        " \o object_code
      \o "\n"
      \o "        \n"
      \o "        # Apply transformations\n"
      \o "        " \o transform_code
      \o "\n"
      \o "        \n"
      \o "        # Render with appropriate timing\n"
      \o "        self.wait(" \o Repr(request.parameters.duration) \o ")\n"

(***************************************************************************)
(* AnimationValidator.                                                     *)
(***************************************************************************)
RECURSIVE NormWarnings(_, _)
\* the warnings for the vectors from the k-th on
NormWarnings(vectors, k) ==
  IF k > Len(vectors) THEN <<>>
  ELSE (IF NormAtLeastOne(vectors[k].coordinates)
        THEN <<"Vector " \o ReprList(vectors[k].coordinates)
               \o " has norm >= 1, not valid for Poincaré ball model">>
        ELSE <<>>) \o NormWarnings(vectors, k + 1)

\* the warnings of _validate_vector_operations for the vectors of the request
VectorWarnings(vectors) ==
  IF /\ Len(vectors) >= 2
     /\ \A k \in DOMAIN vectors : "coordinates" \in DOMAIN vectors[k]
  THEN NormWarnings(vectors, 1) ELSE <<>>

\* a dict with the key when the list has entries, an empty dict otherwise
ListEntry(key, list) == IF list # <<>> THEN (key :> list) ELSE EmptyDict

\* _validate_vector_operations marking the report as inaccurate when it
\* has warnings
_validate_vector_operations_Inaccurate(request) ==
  LET warnings == VectorWarnings(SelectSeq(request.objects,
                                           LAMBDA obj : obj.type = "vector"))
  IN  IF warnings # <<>>
      THEN ("warnings" :> warnings) @@ ("mathematical_accuracy" :> FALSE)
      ELSE EmptyDict

_validate_vector_operations(request) ==
  ListEntry("warnings",
            VectorWarnings(SelectSeq(request.objects, LAMBDA obj : obj.type = "vector")))

\* one suggestion for each projection
ProjectionSuggestions(projections) ==
  [k \in DOMAIN projections |->
     "Consider handling the north pole singularity " \o "in stereographic projection"]

_validate_geometric_transforms(request) ==
  ListEntry("suggestions",
            ProjectionSuggestions(SelectSeq(request.transformations,
                                            LAMBDA transform : transform.type = "projection")))

\* the dict returned for the list of issues found; reason is <<>> for None
Stability(stability_issues) ==
  [stable |-> Len(stability_issues) = 0,
   reason |-> IF stability_issues # <<>> THEN <<Join(stability_issues, "; ")>> ELSE <<>>]

_check_numerical_stability(code) ==
  Stability((IF Contains(code, "/ (1 -") /\ ~Contains(code, "0.99")
             THEN <<"Division by (1-z) without bounds check">> ELSE <<>>)
            \o (IF Contains(code, "norm(") /\ ~Contains(code, "if norm")
                THEN <<"Vector normalization without zero check">> ELSE <<>>))

\* the end of validate: the stability warning appended to the results
WithStability(validation_results, stability_check) ==
  IF ~stability_check.stable
  THEN [validation_results EXCEPT !["warnings"] =
          Append(@, "Potential numerical instability: " \o stability_check.reason[1])]
  ELSE validation_results

AnimationValidator_validate(request, generated_code) ==
  WithStability((IF request.animation_type = VECTOR_OPERATION
                 THEN _validate_vector_operations(request)
                 ELSE IF request.animation_type = GEOMETRIC_TRANSFORM
                 THEN _validate_geometric_transforms(request)
                 ELSE EmptyDict)
                @@ [mathematical_accuracy |-> TRUE, warnings |-> <<>>, suggestions |-> <<>>],
                _check_numerical_stability(generated_code))

(***************************************************************************)
(* servers/file_operations_secured.py: the validation of paths.            *)
(* Paths hold no NUL character: a TLA+ string cannot hold one.             *)
(***************************************************************************)
ALLOWED_DROPBOX_PATHS == <<
  "00_MCP_Living_Knowledge_System", "00_MCP_SYSTEM", "00_MCP_INBOX", "00_MCP_ARCHIVE",
  "00_MCP_Tools", "00_MCP_Tests", "00_MCP_OPER", "00_MCP_LEGA", "00_MCP_IDEATION",
  "Media", "MathematicalResearch" >>

FORBIDDEN_PATHS == <<
  "01_Totem_Networks", "..", "/etc", "/System", "/Applications", "/private", "/usr",
  "/var", "Library/Keychains", ".ssh", ".env" >>

\* [/\\]
Slash == Cls({"/", "\\"})

RECURSIVE Pieces(_, _, _, _)
\* the text from position from on, without the spans from the k-th on
Pieces(t, spans, k, from) ==
  IF k > Len(spans) THEN Slice(t, from - 1, Len(t))
  ELSE Slice(t, from - 1, spans[k][1] - 1) \o Pieces(t, spans, k + 1, spans[k][2])

\* re.sub(pattern, '', text)
Remove(r, t) == Pieces(t, FindIter(r, t), 1, 1)

RECURSIVE ReplaceChar(_, _, _)
\* str.replace(old, new) for an old of one character
ReplaceChar(t, old, new) ==
  IF Len(t) = 0 THEN ""
  ELSE IF Len(t) = 1 THEN (IF t = old THEN new ELSE t)
  ELSE ReplaceChar(SubSeq(t, 1, Len(t) \div 2), old, new)
       \o ReplaceChar(SubSeq(t, Len(t) \div 2 + 1, Len(t)), old, new)

sanitize_file_path(path) ==
  IF path = "" THEN ""
  ELSE StripChars(
         ReplaceChar(
           Remove(Cls({"<", ">", ":", "\"", "|", "?", "*"}),
             Remove(Lit("~"),
               Remove(Cat(<<Lit("~"), Slash>>),
                 Remove(Cat(<<Slash, Lit("."), Plus(Lit("."))>>),
                   Remove(Cat(<<Lit("."), Plus(Lit(".")), Slash>>), path))))),
           "\\", "/"),
         {"/", " ", "\t", "\r", "\n"})

RECURSIVE NormComps(_, _, _, _)
\* the loop of posixpath.normpath over the components from the k-th on;
\* rooted: the path is absolute
NormComps(comps, k, new_comps, rooted) ==
  IF k > Len(comps) THEN new_comps
  ELSE IF comps[k] \in {"", "."} THEN NormComps(comps, k + 1, new_comps, rooted)
  ELSE IF \/ comps[k] # ".."
          \/ (~rooted /\ new_comps = <<>>)
          \/ (new_comps # <<>> /\ new_comps[Len(new_comps)] = "..")
  THEN NormComps(comps, k + 1, Append(new_comps, comps[k]), rooted)
  ELSE IF new_comps # <<>>
  THEN NormComps(comps, k + 1, SubSeq(new_comps, 1, Len(new_comps) - 1), rooted)
  ELSE NormComps(comps, k + 1, new_comps, rooted)

\* path or '.'
OrDot(path) == IF path = "" THEN "." ELSE path

\* os.path.normpath of a path with at most one leading slash
normpath(path) ==
  IF StartsAt(path, 1, "/")
  THEN "/" \o Join(NormComps(Split(path, "/"), 1, <<>>, TRUE), "/")
  ELSE OrDot(Join(NormComps(Split(path, "/"), 1, <<>>, FALSE), "/"))

\* STEP 2 to STEP 4 of validate_dropbox_path for the clean path
CheckClean(clean_path) ==
  IF \E k \in DOMAIN FORBIDDEN_PATHS : Contains(clean_path, FORBIDDEN_PATHS[k])
  THEN <<FALSE, "Access denied: Path contains forbidden element '"
                \o FORBIDDEN_PATHS[Min({k \in DOMAIN FORBIDDEN_PATHS :
                                          Contains(clean_path, FORBIDDEN_PATHS[k])})]
                \o "'">>
  ELSE IF \E k \in DOMAIN ALLOWED_DROPBOX_PATHS :
            StartsAt(clean_path, 1, ALLOWED_DROPBOX_PATHS[k])
  THEN <<TRUE, "Path validated">>
  ELSE IF clean_path = "" \/ clean_path = "."
  THEN <<TRUE, "Root access for navigation">>
  ELSE <<FALSE, "Access denied: Path '" \o clean_path \o "' not in allowed directories">>

\* the clean path of validate_dropbox_path
CleanPath(file_path) == normpath(sanitize_file_path(file_path))

\* validate_dropbox_path: <<is_valid, error_message>>
validate_dropbox_path(file_path) == CheckClean(CleanPath(file_path))

(***************************************************************************)
(* process_animation_request.  Every invocation (call) has its own locals; *)
(* the variables below map a call to the value of the local of that name.  *)
(* A local that may hold None is <<>> for None and <<v>> for the value v.  *)
(***************************************************************************)
None == <<>>

Some(v) == <<v>>

VARIABLES
  description,        \* argument: the text to process
  validate,           \* argument: the validate flag
  installed,          \* environment: spacy.load finds the model en_core_web_sm
  pc,                 \* the statement the call is at
  animation_request,  \* local of process_animation_request
  manim_code,         \* local
  validation_report,  \* local
  exc,                \* the exception raised, caught (e) or propagating
  result,             \* the dict returned to the caller
  dirs,               \* the filesystem: the locations that are directories
  files,              \* the filesystem: the content of every regular file
  stream,             \* the location of the file the log handler has open
  operation,          \* the file operation made last, with its path arguments
  response,           \* what the file operation made last gave its caller
  touched,            \* the locations that operation read, wrote, moved or deleted
  done,               \* the number of file operations made
  current_length,     \* context_monitor.current_length
  message_count,      \* context_monitor.message_count
  message_history,    \* context_monitor.message_history
  monitored           \* the call of the monitor made last and what it returned

\* the variables of servers/file_operations_secured.py
storage == <<dirs, files, stream, operation, response, touched, done>>

\* the variables of utils/context_monitor.py
monitor == <<current_length, message_count, message_history, monitored>>

vars == <<description, validate, installed, pc, animation_request, manim_code,
          validation_report, exc, result, storage, monitor>>

Calls == DOMAIN pc

(***************************************************************************)
(* The descriptions the calls are given.                                   *)
(***************************************************************************)
\* input of the end-to-end test of a projected sphere (spec.md section 8)
StereoScenario ==
  "Create an animation showing a stereo projected sphere on a polar plane, "
  \o "then rotate the plane relative to the pole for 5 seconds in 4K quality"

\* input of the end-to-end test of a rotating plane
MobiusScenario ==
  "Visualize a Möbius transformation on the complex plane rotating by 45 degrees"

\* input of the vector norm check
GyroScenario ==
  "Show gyroaddition of [0.3,0.4,0] and [1.1,0.2,0.5] in the Poincaré ball model"

\* input of the end-to-end test of a transported gyrovector
TransportScenario ==
  "Animate parallel transport of a gyrovector along a geodesic in hyperbolic space "
  \o "for 8 seconds"

Scenarios == {StereoScenario, MobiusScenario, GyroScenario, TransportScenario}

\* the fragments descriptions are assembled from
Fragments == <<
  "hello", "", "Draw it", "project", "conformal map", "unit sphere", "polar plane",
  "[0.3,0.4,0]", "[1.1,0.2,0.5]", "[0.1,0.2]", "gyroaddition of [0.6,0.9]",
  "gyroscalar", "rotate it around", "45 degrees", "for 5 seconds", "4K", "Artistic",
  "hyperbolic space", "[1,,2]", "simple preview", "0 sec",
  "scale or resize point (0.1,0.2)" >>

RECURSIVE Composed(_)
\* the texts made of n fragments separated by a blank
Composed(n) ==
  IF n = 1 THEN {Fragments[k] : k \in DOMAIN Fragments}
  ELSE {t \o " " \o Fragments[k] : t \in Composed(n - 1), k \in DOMAIN Fragments}

Descriptions == Scenarios \cup UNION {Composed(n) : n \in 1..MaxFrags}

\* the descriptions of the concurrent calls
ConcDescriptions == {"gyroaddition [0.3,0.4,0] [1.1,0.2,0.5]", "[0.1,0.2] [0.3,0.4,0]",
                     "unit sphere, rotate 45° around the pole"}

\* Every text a call is given.
Texts == Descriptions \cup ConcDescriptions

\* The description of a call as the parser reads it.  TLC keeps the characters
\* outside ASCII of a string only in the constants of the module, not in the
\* states it has stored, so the text is taken from the set of the texts.
TextOf == [t \in Texts |-> t]

Text(c) == TextOf[description[c]]

\* str(e) of the OSError that spacy.load raises for a model that is not installed
ModelNotFound ==
  "[E050] Can't find model 'en_core_web_sm'. It doesn't seem to be a Python "
  \o "package or a valid path to a data directory."

\* the dict returned at the end of the try block
SuccessResult(code, report, request) ==
  [success |-> TRUE,
   manim_code |-> Some(code),
   validation_report |-> report,
   animation_request |-> Some(request)]

\* FailureResult returning a source text, empty, in place of None
FailureResult_WithCode(e) ==
  [success |-> FALSE,
   error |-> e,
   manim_code |-> Some(""),
   validation_report |-> [error |-> e],
   animation_request |-> None]

\* the dict returned by the except block for the exception message e
FailureResult(e) ==
  [success |-> FALSE,
   error |-> e,
   manim_code |-> None,
   validation_report |-> [error |-> e],
   animation_request |-> None]

\* parser = NLPAnimationParser(); generator = ...; validator = ...
\* These statements stand before the try block: an exception of spacy.load
\* leaves process_animation_request.
Construct(c) ==
  /\ c \in Calls
  /\ pc[c] = "construct"
  /\ IF installed[c]
     THEN /\ pc' = [pc EXCEPT ![c] = "parse"]
          /\ exc' = exc
     ELSE /\ pc' = [pc EXCEPT ![c] = "raised"]
          /\ exc' = [exc EXCEPT ![c] = Some(ModelNotFound)]
  /\ UNCHANGED <<storage, monitor>>
  /\ UNCHANGED <<description, validate, installed, animation_request, manim_code,
                 validation_report, result>>

\* Parsed when the list of objects is an attribute shared by the parsers:
\* the objects of a call that parsed earlier stay in the list
Parsed_SharedObjects(c, p) ==
  IF p.raised # <<>>
  THEN /\ exc' = [exc EXCEPT ![c] = p.raised]
       /\ pc' = [pc EXCEPT ![c] = "except"]
       /\ animation_request' = animation_request
  ELSE /\ animation_request' =
            [animation_request EXCEPT ![c] =
               LET earlier == {d \in Calls \ {c} : animation_request[d] # None}
               IN  IF earlier = {} THEN p.request
                   ELSE <<[p.request[1] EXCEPT !.objects =
                             animation_request[CHOOSE d \in earlier : TRUE][1].objects \o @]>>]
       /\ pc' = [pc EXCEPT ![c] = "generate"]
       /\ exc' = exc

\* the step of a call whose parser.parse ended as p
Parsed(c, p) ==
  IF p.raised # <<>>
  THEN /\ exc' = [exc EXCEPT ![c] = p.raised]
       /\ pc' = [pc EXCEPT ![c] = "except"]
       /\ animation_request' = animation_request
  ELSE /\ animation_request' = [animation_request EXCEPT ![c] = p.request]
       /\ pc' = [pc EXCEPT ![c] = "generate"]
       /\ exc' = exc

\* animation_request = parser.parse(description)
Parse(c) ==
  /\ c \in Calls
  /\ pc[c] = "parse"
  /\ Parsed(c, parse(Text(c)))
  /\ UNCHANGED <<storage, monitor>>
  /\ UNCHANGED <<description, validate, installed, manim_code, validation_report, result>>

\* Generate when the generator numbers the scenes it writes
Generate_Numbered(c) ==
  /\ c \in Calls
  /\ pc[c] = "generate"
  /\ manim_code' = [manim_code EXCEPT ![c] =
                      Some(generate(animation_request[c][1]) \o "# scene " \o NatToStr(c))]
  /\ pc' = [pc EXCEPT ![c] = "validate"]
  /\ UNCHANGED <<storage, monitor>>
  /\ UNCHANGED <<description, validate, installed, animation_request, validation_report,
                 exc, result>>

\* manim_code = generator.generate(animation_request)
Generate(c) ==
  /\ c \in Calls
  /\ pc[c] = "generate"
  /\ manim_code' = [manim_code EXCEPT ![c] = Some(generate(animation_request[c][1]))]
  /\ pc' = [pc EXCEPT ![c] = "validate"]
  /\ UNCHANGED <<storage, monitor>>
  /\ UNCHANGED <<description, validate, installed, animation_request, validation_report,
                 exc, result>>

\* Validate when a report with warnings is raised as an error
Validate_Strict(c) ==
  /\ c \in Calls
  /\ pc[c] = "validate"
  /\ validation_report' =
       [validation_report EXCEPT ![c] =
          IF validate[c]
          THEN AnimationValidator_validate(animation_request[c][1], manim_code[c][1])
          ELSE EmptyDict]
  /\ IF "warnings" \in DOMAIN validation_report'[c]
     THEN /\ pc' = [pc EXCEPT ![c] = "except"]
          /\ exc' = [exc EXCEPT ![c] = Some("Validation failed")]
     ELSE /\ pc' = [pc EXCEPT ![c] = "return"]
          /\ exc' = exc
  /\ UNCHANGED <<storage, monitor>>
  /\ UNCHANGED <<description, validate, installed, animation_request, manim_code, result>>

\* validation_report = {}; if validate: validation_report = validator.validate(...)
Validate(c) ==
  /\ c \in Calls
  /\ pc[c] = "validate"
  /\ validation_report' =
       [validation_report EXCEPT ![c] =
          IF validate[c]
          THEN AnimationValidator_validate(animation_request[c][1], manim_code[c][1])
          ELSE EmptyDict]
  /\ pc' = [pc EXCEPT ![c] = "return"]
  /\ UNCHANGED <<storage, monitor>>
  /\ UNCHANGED <<description, validate, installed, animation_request, manim_code, exc, result>>

\* return {"success": True, ...}
Return(c) ==
  /\ c \in Calls
  /\ pc[c] = "return"
  /\ result' = [result EXCEPT ![c] =
                  Some(SuccessResult(manim_code[c][1], validation_report[c],
                                     animation_request[c][1]))]
  /\ pc' = [pc EXCEPT ![c] = "done"]
  /\ UNCHANGED <<storage, monitor>>
  /\ UNCHANGED <<description, validate, installed, animation_request, manim_code,
                 validation_report, exc>>

\* except Exception as e: return {"success": False, ...}
Except(c) ==
  /\ c \in Calls
  /\ pc[c] = "except"
  /\ result' = [result EXCEPT ![c] = Some(FailureResult(exc[c][1]))]
  /\ pc' = [pc EXCEPT ![c] = "done"]
  /\ UNCHANGED <<storage, monitor>>
  /\ UNCHANGED <<description, validate, installed, animation_request, manim_code,
                 validation_report, exc>>

(***************************************************************************)
(* servers/file_operations_secured.py: the filesystem.  A location is the  *)
(* sequence of the names that lead to it from the root; there are no       *)
(* symbolic links.  A record of security.log is one line, "-" for its      *)
(* text.  Time stamps and the error texts of the operating system are      *)
(* left out of the dicts returned.                                         *)
(***************************************************************************)
dropbox_base == <<"Users", "scottbroock", "Dropbox">>

\* dropbox_base, as the operations spell it
BaseText == "/Users/scottbroock/Dropbox"

log_dir == dropbox_base \o <<"00_MCP_SYSTEM">>

log_file == log_dir \o <<"security.log">>

Parent(loc) == IF loc = <<>> THEN <<>> ELSE SubSeq(loc, 1, Len(loc) - 1)

\* the location is top or below it
Under(loc, top) == Len(loc) >= Len(top) /\ SubSeq(loc, 1, Len(top)) = top

\* os.path.exists of a location
Exists(ds, fs, loc) == loc \in ds \/ loc \in DOMAIN fs

\* the entries of a directory
Children(ds, fs, loc) == {l \in ds \cup DOMAIN fs : l # <<>> /\ Parent(l) = loc}

\* the filesystem that lacks everything at and below the location
Without(fs, loc) == [l \in {m \in DOMAIN fs : ~Under(m, loc)} |-> fs[l]]

\* open(loc, 'w').write(content)
Written(fs, loc, content) ==
  [l \in DOMAIN fs \cup {loc} |-> IF l = loc THEN content ELSE fs[l]]

RECURSIVE Records(_)
Records(n) == IF n = 0 THEN "" ELSE "-\n" \o Records(n - 1)

\* n calls of security_logger.info / .warning when the file the handler has
\* open is at the location at[1], or is unlinked (at = None): then nothing
\* is seen of a record
LoggedAt(fs, at, n) ==
  IF at # None THEN [fs EXCEPT ![at[1]] = @ \o Records(n)] ELSE fs

\* the same, the file being where the operation found it
Logged(fs, n) == LoggedAt(fs, stream, n)

RECURSIVE Walk(_, _, _, _)
\* the location the kernel resolves the components from the k-th on to, from
\* the directory cur; None where a component is looked up in no directory
Walk(ds, comps, k, cur) ==
  IF k > Len(comps) THEN Some(cur)
  ELSE IF cur \notin ds THEN None
  ELSE IF comps[k] \in {"", "."} THEN Walk(ds, comps, k + 1, cur)
  ELSE IF comps[k] = ".." THEN Walk(ds, comps, k + 1, Parent(cur))
  ELSE Walk(ds, comps, k + 1, Append(cur, comps[k]))

\* the location of a path, None where the path leads nowhere
Resolve(ds, comps) == Walk(ds, comps, 1, <<>>)

\* os.path.exists(path)
PathExists(ds, fs, comps) ==
  Resolve(ds, comps) # None /\ Exists(ds, fs, Resolve(ds, comps)[1])

RECURSIVE MakeDirs(_, _, _, _, _)
\* os.makedirs(path, exist_ok=True) from the k-th component on: the
\* directories afterwards, and whether no exception was raised
MakeDirs(ds, fs, comps, k, cur) ==
  IF cur \in DOMAIN fs THEN [dirs |-> ds, ok |-> FALSE]
  ELSE IF k > Len(comps) THEN [dirs |-> ds \cup {cur}, ok |-> TRUE]
  ELSE IF comps[k] \in {"", "."} THEN MakeDirs(ds \cup {cur}, fs, comps, k + 1, cur)
  ELSE IF comps[k] = ".." THEN MakeDirs(ds \cup {cur}, fs, comps, k + 1, Parent(cur))
  ELSE MakeDirs(ds \cup {cur}, fs, comps, k + 1, Append(cur, comps[k]))

\* os.path.join(dropbox_base, path.strip('/')), as components
FullPath(path) == dropbox_base \o Split(StripChars(path, {"/"}), "/")

\* the same, as text
FullText(path) == BaseText \o "/" \o StripChars(path, {"/"})

\* os.path.dirname(path)
DirName(comps) == SubSeq(comps, 1, Len(comps) - 1)

\* os.path.basename(path)
BaseName(comps) == comps[Len(comps)]

\* os.path.join(a, b) of texts
JoinPath(a, b) ==
  IF StartsAt(b, 1, "/") THEN b
  ELSE IF a = "" \/ Char(a, Len(a)) = "/" THEN a \o b
  ELSE a \o "/" \o b

RECURSIVE Ups(_)
Ups(n) == IF n = 0 THEN <<>> ELSE <<"..">> \o Ups(n - 1)

\* os.path.relpath(loc, dropbox_base)
RelPath(loc) ==
  LET common == Max({i \in 0..Min({Len(loc), Len(dropbox_base)}) :
                       SubSeq(loc, 1, i) = SubSeq(dropbox_base, 1, i)})
  IN  OrDot(Join(Ups(Len(dropbox_base) - common) \o SubSeq(loc, common + 1, Len(loc)), "/"))

\* any(forbidden in name for forbidden in FORBIDDEN_PATHS)
ForbiddenName(name) == \E k \in DOMAIN FORBIDDEN_PATHS : Contains(name, FORBIDDEN_PATHS[k])

\* the characters of the names of files, in the order of their code points
Ascii == " -.0123456789ABCDEFGHIJKLMNOPQRSTUVWXYZ_abcdefghijklmnopqrstuvwxyz"

Ord(ch) == CHOOSE k \in 1..Len(Ascii) : Char(Ascii, k) = ch

RECURSIVE Before(_, _)
\* a < b of two strs
Before(a, b) ==
  IF b = "" THEN FALSE
  ELSE IF a = "" THEN TRUE
  ELSE IF Char(a, 1) # Char(b, 1) THEN Ord(Char(a, 1)) < Ord(Char(b, 1))
  ELSE Before(SubSeq(a, 2, Len(a)), SubSeq(b, 2, Len(b)))

\* the key of items.sort orders x before y
KeyBefore(x, y) ==
  IF (x.type = "folder") # (y.type = "folder") THEN x.type = "folder"
  ELSE Before(Lower(x.name), Lower(y.name))

RECURSIVE Sorted(_)
\* items.sort(key=lambda x: (x['type'] != 'folder', x['name'].lower()))
Sorted(items) ==
  IF items = {} THEN <<>>
  ELSE LET first == CHOOSE x \in items : \A y \in items \ {x} : ~KeyBefore(y, x)
       IN  <<first>> \o Sorted(items \ {first})

\* content.count('\n') + 1
Lines(content) == Cardinality({i \in 1..Len(content) : Char(content, i) = "\n"}) + 1

\* the state when the module has been imported: the directory of the log
\* made, the log opened and three records written; no operation made yet
Imported ==
  /\ dirs = {SubSeq(log_dir, 1, k) : k \in 0..Len(log_dir)}
              \cup {dropbox_base \o <<"Media">>, dropbox_base \o <<"01_Totem_Networks">>,
                    dropbox_base \o <<"MediaPrivate">>}
  /\ stream = Some(log_file)
  /\ files = (log_file :> Records(3))
               @@ (dropbox_base \o <<"Media", "a.txt">> :> "alpha")
               @@ (dropbox_base \o <<"01_Totem_Networks", "secret.txt">> :> "a secret")
               @@ (dropbox_base \o <<"MediaPrivate", "a.txt">> :> "private")
               @@ (<<"Users", "scottbroock", "notes.txt">> :> "a note")
  /\ operation = None
  /\ response = None
  /\ touched = {}
  /\ done = 0

(***************************************************************************)
(* The arguments the operations are given.                                 *)
(***************************************************************************)
Paths == {
  "", "Media", "Media/a.txt", "Media/new/b.txt", "01_Totem_Networks/secret.txt",
  "SomeRandomFolder", "../../../etc/passwd", "Media/../../notes.txt",
  "MediaPrivate/a.txt" }

Contents == {"beta"}

Queries == {"a"}

SearchTypes == {"filename", "content", "folders"}

\* validate_dropbox_path of the arguments, computed once
Validation == [path \in Paths |-> validate_dropbox_path(path)]

\* validate_dropbox_path as the operations call it
Validated(path) ==
  IF path \in Paths THEN Validation[path] ELSE validate_dropbox_path(path)

(***************************************************************************)
(* servers/file_operations_secured.py: the operations.  Each is one step,  *)
(* from its call to its return.                                            *)
(***************************************************************************)
\* the variables of nlp_manim_pipeline.py
pipeline == <<description, validate, installed, pc, animation_request, manim_code,
              validation_report, exc, result>>

\* the name of the entry at a location
Name(loc) == loc[Len(loc)]

\* item.startswith('.')
Hidden(loc) == StartsAt(Name(loc), 1, ".")

\* the dict of an operation that validate_dropbox_path stopped
Blocked(error_msg) == [error |-> error_msg, security_block |-> TRUE]

\* the exception that leaves an operation
Raised(exception) == [raised |-> exception]

\* the directories that os.makedirs made
Made(ds) == {<<"write", d>> : d \in ds \ dirs}

\* the operation ends: what it was, what it gave, what it touched, the
\* filesystem it leaves and where the file of the log is then
Ends(name, paths, resp, acc, ds, fs, at) ==
  /\ operation' = Some([name |-> name, paths |-> paths])
  /\ response' = Some(resp)
  /\ touched' = acc
  /\ dirs' = ds
  /\ files' = fs
  /\ stream' = at
  /\ done' = done + 1
  /\ UNCHANGED <<pipeline, monitor>>

\* the operation ends, the file of the log where it was
Returns(name, paths, resp, acc, ds, fs) == Ends(name, paths, resp, acc, ds, fs, stream)

\* the items of a listing; fs is the filesystem when the entries are stat'ed
Items(folder_path, full, include_hidden, fs) ==
  LET shown == {l \in Children(dirs, fs, full) :
                  ~(~include_hidden /\ Hidden(l)) /\ ~ForbiddenName(Name(l))}
      allowed == {l \in shown \cap dirs :
                    Validated(
                      StripChars(JoinPath(folder_path, Name(l)), {"/"}))[1]}
  IN  {[type |-> "folder", name |-> Name(l),
        item_count |-> Cardinality({m \in Children(dirs, fs, l) : ~Hidden(m)})] :
         l \in allowed}
      \cup {[type |-> "file", name |-> Name(l), size |-> Len(fs[l])] : l \in shown \ dirs}

\* the subdirectories that a listing validates
ListedDirs(full, include_hidden) ==
  {l \in Children(dirs, files, full) \cap dirs :
     ~(~include_hidden /\ Hidden(l)) /\ ~ForbiddenName(Name(l))}

list_dropbox_folder(folder_path, include_hidden) ==
  /\ done < MaxOps
  /\ LET name == "list_dropbox_folder"
         v == Validated(folder_path)
         full == Resolve(dirs, FullPath(folder_path))
     IN  IF ~v[1]
         THEN Returns(name, <<folder_path>>, Blocked(v[2]), {}, dirs, Logged(files, 2))
         ELSE IF ~PathExists(dirs, files, FullPath(folder_path))
         THEN Returns(name, <<folder_path>>,
                      [error |-> "Folder not found: " \o folder_path,
                       suggestion |-> "Try searching for the folder name first"],
                      {}, dirs, Logged(files, 2))
         ELSE IF full[1] \notin dirs
         THEN Returns(name, <<folder_path>>, Raised("NotADirectoryError"),
                      {}, dirs, Logged(files, 2))
         ELSE Returns(name, <<folder_path>>,
                      [folder |-> folder_path,
                       full_path |-> FullText(folder_path),
                       item_count |->
                         Cardinality(Items(folder_path, full[1], include_hidden,
                                           Logged(files, 2))),
                       items |->
                         Sorted(Items(folder_path, full[1], include_hidden,
                                      Logged(files, 2)))],
                      {<<"read", full[1]>>}
                        \cup {<<"read", l>> : l \in
                                {m \in ListedDirs(full[1], include_hidden) :
                                   Validated(
                                     StripChars(JoinPath(folder_path, Name(m)), {"/"}))[1]}},
                      dirs,
                      Logged(files, 2 + 2 * Cardinality(ListedDirs(full[1], include_hidden))))

read_dropbox_file(file_path) ==
  /\ done < MaxOps
  /\ LET name == "read_dropbox_file"
         v == Validated(file_path)
         full == Resolve(dirs, FullPath(file_path))
     IN  IF ~v[1]
         THEN Returns(name, <<file_path>>, Blocked(v[2]), {}, dirs, Logged(files, 2))
         ELSE IF ~PathExists(dirs, files, FullPath(file_path))
         THEN Returns(name, <<file_path>>,
                      [error |-> "File not found: " \o file_path,
                       suggestion |-> "Check the file path or search for the file"],
                      {}, dirs, Logged(files, 2))
         ELSE IF full[1] \in dirs
         THEN Returns(name, <<file_path>>,
                      [error |-> "Could not read file", file_path |-> file_path],
                      {}, dirs, Logged(files, 2))
         ELSE Returns(name, <<file_path>>,
                      [file_path |-> file_path,
                       content |-> Logged(files, 2)[full[1]],
                       size |-> Len(Logged(files, 2)[full[1]]),
                       lines |-> Lines(Logged(files, 2)[full[1]])],
                      {<<"read", full[1]>>}, dirs, Logged(files, 2))

\* save_to_dropbox after os.makedirs left the directories ds
Save(content, file_path, overwrite, ds) ==
  LET name == "save_to_dropbox"
      full == Resolve(ds, FullPath(file_path))
  IN  IF PathExists(ds, files, FullPath(file_path)) /\ ~overwrite
      THEN Returns(name, <<file_path>>,
                   [error |-> "File already exists",
                    suggestion |-> "Set overwrite=true or choose a different filename"],
                   Made(ds), ds, Logged(files, 2))
      ELSE IF full = None \/ full[1] \in ds
      THEN Returns(name, <<file_path>>,
                   [error |-> "Could not save file", file_path |-> file_path],
                   Made(ds), ds, Logged(files, 2))
      ELSE Returns(name, <<file_path>>,
                   [status |-> "success", file_path |-> file_path,
                    full_path |-> FullText(file_path), size |-> Len(content)],
                   Made(ds) \cup {<<"write", full[1]>>}, ds,
                   Logged(Written(Logged(files, 2), full[1], content), 1))

save_to_dropbox(content, file_path, overwrite) ==
  /\ done < MaxOps
  /\ LET v == Validated(file_path)
     IN  IF ~v[1]
         THEN Returns("save_to_dropbox", <<file_path>>, Blocked(v[2]), {}, dirs,
                      Logged(files, 2))
         ELSE Save(content, file_path, overwrite,
                   MakeDirs(dirs, files, DirName(FullPath(file_path)), 1, <<>>).dirs)

\* the checks of copy_file and move_file, that of the destination left out
Refused_SourceOnly(source_path, dest_path) ==
  LET vs == Validated(source_path)
  IN  IF ~vs[1] THEN Some(<<Blocked("Source path: " \o vs[2]), 2>>)
      ELSE IF ~PathExists(dirs, files, FullPath(source_path))
      THEN Some(<<[error |-> "Source file does not exist: " \o source_path], 4>>)
      ELSE None

\* the checks that copy_file and move_file begin with: the dict to return
\* and the number of records logged, None where the checks pass
Refused(source_path, dest_path) ==
  LET vs == Validated(source_path)
      vd == Validated(dest_path)
  IN  IF ~vs[1] THEN Some(<<Blocked("Source path: " \o vs[2]), 2>>)
      ELSE IF ~vd[1] THEN Some(<<Blocked("Destination path: " \o vd[2]), 4>>)
      ELSE IF ~PathExists(dirs, files, FullPath(source_path))
      THEN Some(<<[error |-> "Source file does not exist: " \o source_path], 4>>)
      ELSE None

\* st_size of a directory
DirSize == "st_size"

\* copy_file after its checks and os.makedirs, which left the directories ds
Copy(source_path, dest_path, ds) ==
  LET name == "copy_file"
      src == Resolve(dirs, FullPath(source_path))[1]
      dst == Resolve(ds, FullPath(dest_path))
      real == IF dst # None /\ dst[1] \in ds
              THEN Resolve(ds, FullPath(dest_path) \o <<BaseName(FullPath(source_path))>>)
              ELSE dst
  IN  IF src \in dirs \/ real = None \/ real[1] \in ds \/ real[1] = src
      THEN Returns(name, <<source_path, dest_path>>, [error |-> "Could not copy file"],
                   Made(ds), ds, Logged(files, 4))
      ELSE Returns(name, <<source_path, dest_path>>,
                   [status |-> "success", source |-> source_path,
                    destination |-> dest_path,
                    size |-> IF dst[1] \in ds THEN DirSize
                             ELSE Len(Logged(files, 4)[src])],
                   Made(ds) \cup {<<"read", src>>, <<"write", real[1]>>}, ds,
                   Logged(Written(Logged(files, 4), real[1], Logged(files, 4)[src]), 1))

copy_file(source_path, dest_path) ==
  /\ done < MaxOps
  /\ IF Refused(source_path, dest_path) # None
     THEN Returns("copy_file", <<source_path, dest_path>>,
                  Refused(source_path, dest_path)[1][1], {}, dirs,
                  Logged(files, Refused(source_path, dest_path)[1][2]))
     ELSE Copy(source_path, dest_path,
               MakeDirs(dirs, files, DirName(FullPath(dest_path)), 1, <<>>).dirs)

\* where shutil.move puts what is at or below src when src goes to real
Relocated(loc, src, real) ==
  IF Under(loc, src) THEN real \o SubSeq(loc, Len(src) + 1, Len(loc)) ELSE loc

\* where the file of the log is when src has gone to real: it goes along,
\* and is unlinked when another file takes its name
Renamed(src, real) ==
  IF stream = None THEN None
  ELSE IF Under(stream[1], src) THEN Some(Relocated(stream[1], src, real))
  ELSE IF stream[1] = real THEN None
  ELSE stream

\* shutil._basename(src): the last name of the path
LastName(comps) ==
  IF comps[Len(comps)] = "" THEN comps[Len(comps) - 1] ELSE comps[Len(comps)]

\* move_file after its checks and os.makedirs, which left the directories ds
Move(source_path, dest_path, ds) ==
  LET name == "move_file"
      src == Resolve(dirs, FullPath(source_path))[1]
      dst == Resolve(ds, FullPath(dest_path))
      into == dst # None /\ dst[1] \in ds /\ dst[1] # src
      real == IF into
              THEN Resolve(ds, FullPath(dest_path) \o <<LastName(FullPath(source_path))>>)
              ELSE dst
      moved == [status |-> "success", source |-> source_path, destination |-> dest_path]
      failed == [error |-> "Could not move file"]
      fs == Logged(files, 4)
  IN  IF real = None \/ (into /\ Exists(ds, files, real[1]))
      THEN Returns(name, <<source_path, dest_path>>, failed, Made(ds), ds, fs)
      ELSE IF real[1] = src
      THEN Returns(name, <<source_path, dest_path>>, moved, Made(ds), ds, Logged(fs, 1))
      ELSE IF src \in ds /\ (Under(real[1], src) \/ Exists(ds, files, real[1]))
      THEN Returns(name, <<source_path, dest_path>>, failed, Made(ds), ds, fs)
      ELSE IF src \notin ds /\ real[1] \in ds
      THEN Returns(name, <<source_path, dest_path>>, failed, Made(ds), ds, fs)
      ELSE Ends(name, <<source_path, dest_path>>, moved,
                Made(ds) \cup {<<"move", l>> : l \in {m \in ds \cup DOMAIN files :
                                                       Under(m, src)}}
                         \cup {<<"write", real[1]>>},
                {Relocated(d, src, real[1]) : d \in ds},
                LoggedAt([l \in {Relocated(m, src, real[1]) : m \in DOMAIN fs} |->
                            IF Under(l, real[1])
                            THEN fs[src \o SubSeq(l, Len(real[1]) + 1, Len(l))]
                            ELSE fs[l]],
                         Renamed(src, real[1]), 1),
                Renamed(src, real[1]))

move_file(source_path, dest_path) ==
  /\ done < MaxOps
  /\ IF Refused(source_path, dest_path) # None
     THEN Returns("move_file", <<source_path, dest_path>>,
                  Refused(source_path, dest_path)[1][1], {}, dirs,
                  Logged(files, Refused(source_path, dest_path)[1][2]))
     ELSE Move(source_path, dest_path,
               MakeDirs(dirs, files, DirName(FullPath(dest_path)), 1, <<>>).dirs)

\* where the file of the log is when all at and below the location is gone
Unlinked(loc) == IF stream # None /\ Under(stream[1], loc) THEN None ELSE stream

delete_file(path) ==
  /\ done < MaxOps
  /\ LET name == "delete_file"
         v == Validated(path)
         full == Resolve(dirs, FullPath(path))
     IN  IF ~v[1]
         THEN Returns(name, <<path>>, Blocked(v[2]), {}, dirs, Logged(files, 2))
         ELSE IF ~PathExists(dirs, files, FullPath(path))
         THEN Returns(name, <<path>>, [error |-> "Path does not exist: " \o path],
                      {}, dirs, Logged(files, 2))
         ELSE IF full[1] \in dirs
         THEN Ends(name, <<path>>,
                   [status |-> "success", deleted |-> path, type |-> "directory"],
                   {<<"delete", l>> : l \in {m \in dirs \cup DOMAIN files :
                                               Under(m, full[1])}},
                   {d \in dirs : ~Under(d, full[1])},
                   LoggedAt(Without(Logged(files, 2), full[1]), Unlinked(full[1]), 1),
                   Unlinked(full[1]))
         ELSE Ends(name, <<path>>,
                   [status |-> "success", deleted |-> path, type |-> "file"],
                   {<<"delete", full[1]>>}, dirs,
                   LoggedAt(Without(Logged(files, 2), full[1]), Unlinked(full[1]), 1),
                   Unlinked(full[1]))

\* create_folder after os.makedirs ended as made
Create(path, made) ==
  IF made.ok
  THEN Returns("create_folder", <<path>>,
               [status |-> "success", created |-> path, full_path |-> FullText(path)],
               Made(made.dirs), made.dirs, Logged(files, 3))
  ELSE Returns("create_folder", <<path>>, [error |-> "Could not create folder"],
               Made(made.dirs), made.dirs, Logged(files, 2))

create_folder(path) ==
  /\ done < MaxOps
  /\ LET v == Validated(path)
     IN  IF ~v[1]
         THEN Returns("create_folder", <<path>>, Blocked(v[2]), {}, dirs, Logged(files, 2))
         ELSE Create(path, MakeDirs(dirs, files, FullPath(path), 1, <<>>))

\* file.endswith(ext)
EndsWith(t, ext) == Len(ext) <= Len(t) /\ SubSeq(t, Len(t) - Len(ext) + 1, Len(t)) = ext

text_extensions == {".txt", ".md", ".tex", ".py", ".json", ".yaml", ".yml"}

\* the directories that search_dropbox walks: the given path, else every
\* allowed folder, where it exists
SearchRoots(path) ==
  LET given == IF StartsAt(path, 1, "/") THEN Split(path, "/")
               ELSE dropbox_base \o Split(path, "/")
      paths_to_search ==
        IF path # "" THEN {given}
        ELSE {dropbox_base \o <<ALLOWED_DROPBOX_PATHS[k]>> : k \in DOMAIN ALLOWED_DROPBOX_PATHS}
  IN  {Resolve(dirs, comps)[1] : comps \in {c \in paths_to_search :
                                               PathExists(dirs, files, c)}}

\* the directories os.walk visits from the roots, those of a forbidden name
\* pruned
Walked(roots) ==
  {d \in dirs : \E r \in roots :
     /\ Under(d, r)
     /\ \A k \in (Len(r) + 1)..Len(d) : ~ForbiddenName(d[k])}

\* the entries the search looks at before it validates their paths
Candidates(query, search_type, roots) ==
  CASE search_type = "filename" ->
         {f \in DOMAIN files : Parent(f) \in Walked(roots)
                                 /\ Contains(Lower(Name(f)), Lower(query))}
    [] search_type = "folders" ->
         {d \in Walked(roots) \ roots : Contains(Lower(Name(d)), Lower(query))}
    [] search_type = "content" ->
         {f \in DOMAIN files : Parent(f) \in Walked(roots)
                                 /\ \E ext \in text_extensions : EndsWith(Name(f), ext)}
    [] OTHER -> {}

\* the candidates whose path relative to the base is validated
Accepted(query, search_type, roots) ==
  {l \in Candidates(query, search_type, roots) : Validated(RelPath(l))[1]}

RECURSIVE MatchingLines(_, _, _)
\* the lines from the i-th on that hold the query, numbered
MatchingLines(lines, i, query) ==
  IF i > Len(lines) THEN <<>>
  ELSE IF Contains(Lower(lines[i]), Lower(query))
  THEN <<[line_number |-> i, content |-> Strip(lines[i])]>>
       \o MatchingLines(lines, i + 1, query)
  ELSE MatchingLines(lines, i + 1, query)

\* matching_lines[:5]
FirstFive(seq) == SubSeq(seq, 1, Min({5, Len(seq)}))

\* the results of a search, in no order: the order is that of os.walk.
\* full_path, which spells the way the walk took, is left out.
Results(query, search_type, roots, fs) ==
  CASE search_type = "filename" ->
         {[type |-> "file", name |-> Name(f), path |-> RelPath(f), size |-> Len(fs[f])] :
            f \in Accepted(query, search_type, roots)}
    [] search_type = "folders" ->
         {[type |-> "folder", name |-> Name(d), path |-> RelPath(d),
           item_count |-> Cardinality(Children(dirs, fs, d))] :
            d \in Accepted(query, search_type, roots)}
    [] search_type = "content" ->
         {[type |-> "file", name |-> Name(f), path |-> RelPath(f),
           matches |-> FirstFive(MatchingLines(Split(fs[f], "\n"), 1, query))] :
            f \in {g \in Accepted(query, search_type, roots) :
                     Contains(Lower(fs[g]), Lower(query))}}
    [] OTHER -> {}

\* path is "" where the caller gives none
search_dropbox(query, search_type, path) ==
  /\ done < MaxOps
  /\ LET name == "search_dropbox"
         v == Validated(path)
         first == IF path # "" THEN 2 ELSE 0
         roots == SearchRoots(path)
     IN  IF path # "" /\ ~v[1]
         THEN Returns(name, <<path>>, Blocked(v[2]), {}, dirs, Logged(files, 2))
         ELSE Returns(name, <<path>>,
                      [query |-> query, search_type |-> search_type,
                       results_count |->
                         Cardinality(Results(query, search_type, roots, Logged(files, first))),
                       results |-> Results(query, search_type, roots, Logged(files, first))],
                      {<<"read", d>> : d \in Walked(roots)}
                        \cup (IF search_type = "folders"
                              THEN {<<"read", d>> : d \in Accepted(query, search_type, roots)}
                              ELSE IF search_type = "content"
                              THEN {<<"read", f>> : f \in Accepted(query, search_type, roots)}
                              ELSE {}),
                      dirs,
                      Logged(files, first
                               + 2 * Cardinality(Candidates(query, search_type, roots))))

(***************************************************************************)
(* utils/context_monitor.py.  A message is a string or a value that        *)
(* json.dumps can write.  A string is held by its length alone (its        *)
(* characters are ASCII letters); a list by its items; a dict by its keys   *)
(* and their values, in insertion order.                                    *)
(***************************************************************************)
JStr(n) == [type |-> "str", len |-> n]

JBool(b) == [type |-> "bool", value |-> b]

JList(items) == [type |-> "list", items |-> items]

JDict(keys, values) == [type |-> "dict", keys |-> keys, values |-> values]

RECURSIVE DumpsLen(_)
\* len(json.dumps(value)): the quotes of a string, 'true' and 'false', the
\* brackets of a list and the braces of a dict, ', ' between items and
\* ': ' after a key
DumpsLen(value) ==
  LET RECURSIVE Sum(_, _)
      Sum(lens, k) == IF k = 0 THEN 0 ELSE lens[k] + Sum(lens, k - 1)
      Between(n) == IF n > 1 THEN 2 * (n - 1) ELSE 0
  IN  CASE value.type = "str"  -> value.len + 2
        [] value.type = "bool" -> IF value.value THEN 4 ELSE 5
        [] value.type = "list" ->
             2 + Sum([k \in DOMAIN value.items |-> DumpsLen(value.items[k])],
                     Len(value.items))
               + Between(Len(value.items))
        [] value.type = "dict" ->
             2 + Sum([k \in DOMAIN value.keys |->
                        Len(value.keys[k]) + 2 + 2 + DumpsLen(value.values[k])],
                     Len(value.keys))
               + Between(Len(value.keys))

\* message_str = json.dumps(message) if not isinstance(message, str) else
\* message; message_length = len(message_str)
MessageLength(message) ==
  IF message.type = "str" THEN message.len ELSE DumpsLen(message)

\* MCPContextMonitor(): max_chars of the global instance
MAX_CHARS == 50000

\* projected_length > self.MAX_CHARS * 0.85 (the product is 42500.0)
AboveCritical(length) == length * 100 > MAX_CHARS * 85

\* projected_length > self.MAX_CHARS * 0.70 (the product is 35000.0)
AboveWarning(length) == length * 100 > MAX_CHARS * 70

\* self.current_length > self.MAX_CHARS * 0.8 (the product is 40000.0)
AboveTruncation(length) == length * 100 > MAX_CHARS * 80

\* the dict check_context returns.  The text under 'message' is fixed by
\* the status and is not held; percentage is the quotient of the pair.
CheckResult(length, count, new_message) ==
  LET projected_length == length + MessageLength(new_message)
  IN  IF AboveCritical(projected_length)
      THEN [status |-> "CRITICAL", action |-> Some("minimize"),
            stats |-> [current |-> length, projected |-> projected_length,
                       max |-> MAX_CHARS, message_count |-> count]]
      ELSE IF AboveWarning(projected_length)
      THEN [status |-> "WARNING", action |-> Some("warn"),
            stats |-> [current |-> length, projected |-> projected_length,
                       max |-> MAX_CHARS,
                       percentage |-> <<projected_length * 100, MAX_CHARS>>]]
      ELSE [status |-> "OK", action |-> None]

RECURSIVE Truncated_KeepLength(_, _)
\* the loop of add_message dropping the oldest entries and keeping the length
Truncated_KeepLength(history, length) ==
  IF AboveTruncation(length) /\ Len(history) > 5
  THEN Truncated_KeepLength(Tail(history), length)
  ELSE [message_history |-> history, current_length |-> length]

RECURSIVE Truncated(_, _)
\* while self.current_length > self.MAX_CHARS * 0.8 and
\* len(self.message_history) > 5: pop the first entry, subtract its length
Truncated(history, length) ==
  IF AboveTruncation(length) /\ Len(history) > 5
  THEN Truncated(Tail(history), length - Head(history).length)
  ELSE [message_history |-> history, current_length |-> length]

\* the fields of the monitor after add_message.  The timestamp of an entry
\* is the number of messages added before it.
Added(history, length, count, message, tool_name) ==
  Truncated(Append(history, [tool |-> tool_name, length |-> MessageLength(message),
                             timestamp |-> count]),
            length + MessageLength(message))

essential_fields ==
  <<"status", "result", "data", "error", "message", "summary", "key_results", "id", "type">>

\* a value of a dict as minimize_response keeps it: a string of more than
\* 500 characters is cut to 500 and '... [truncated]' is appended
MinimizedField(value) ==
  IF value.type = "str" /\ value.len > 500
  THEN JStr(500 + Len("... [truncated]")) ELSE value

\* the positions of the keys of a dict that are the essential fields, in
\* the order of essential_fields
EssentialPositions(keys) ==
  LET RECURSIVE From(_)
      From(j) ==
        IF j > Len(essential_fields) THEN <<>>
        ELSE (IF \E k \in DOMAIN keys : keys[k] = essential_fields[j]
              THEN <<CHOOSE k \in DOMAIN keys : keys[k] = essential_fields[j]>>
              ELSE <<>>) \o From(j + 1)
  IN  From(1)

minimize_response(data) ==
  CASE data.type = "dict" ->
         LET kept == EssentialPositions(data.keys)
         IN  JDict([k \in DOMAIN kept |-> data.keys[kept[k]]] \o <<"_context_minimized">>,
                   [k \in DOMAIN kept |-> MinimizedField(data.values[kept[k]])]
                     \o <<JBool(TRUE)>>)
    [] data.type = "list" ->
         IF Len(data.items) > 10
         THEN JList(SubSeq(data.items, 1, 10)
                    \o <<JDict(<<"message">>,
                               <<JStr(Len("... and " \o NatToStr(Len(data.items) - 10)
                                          \o " more items"))>>)>>)
         ELSE data
    [] data.type = "str" ->
         IF data.len > 1000
         THEN JStr(1000 + Len("... [truncated for context limit]")) ELSE data
    [] OTHER -> data

\* what wrap_tool_response adds to the history: the minimised result when
\* the check is CRITICAL, the result otherwise
Recorded(check, tool_result) ==
  IF check.status = "CRITICAL" THEN minimize_response(tool_result) ELSE tool_result

\* what wrap_tool_response returns
Wrapped(check, tool_result) ==
  IF check.status = "CRITICAL"
  THEN [result |-> minimize_response(tool_result), _context_warning |-> Some(check.status),
        _context_stats |-> check.stats, _suggestion |-> TRUE]
  ELSE IF check.status = "WARNING"
  THEN IF tool_result.type = "dict"
       THEN JDict(tool_result.keys \o <<"_context_warning">>,
                  tool_result.values \o <<[type |-> "text", of |-> check.status]>>)
       ELSE [result |-> tool_result, _context_warning |-> Some(check.status)]
  ELSE tool_result

\* the messages and the names of the tools the monitor is given
Long == JStr(18000)

Report ==
  JDict(<<"status", "message", "data", "content">>,
        <<JStr(2), JStr(600), JList(<<Long, Long, Long>>), JStr(2)>>)

Listing == JList([k \in 1..11 |-> JStr(2)])

Failure == JDict(<<"error", "tool">>, <<JStr(30), JStr(12)>>)

Messages == {Long, Report, Listing, Failure}

Tools == {"gemini_query"}

\* the state after MCPContextMonitor.__init__
Monitoring ==
  /\ current_length = 0
  /\ message_count = 0
  /\ message_history = <<>>
  /\ monitored = None

\* a call of the monitor ends
Monitored(name, message, returned) ==
  /\ monitored' = Some([name |-> name, message |-> message, returned |-> returned])
  /\ UNCHANGED <<pipeline, storage>>

check_context(new_message) ==
  /\ Monitored("check_context", new_message,
               CheckResult(current_length, message_count, new_message))
  /\ UNCHANGED <<current_length, message_count, message_history>>

\* the fields of the monitor become those of fields, one more message counted
Counted(fields) ==
  /\ message_history' = fields.message_history
  /\ current_length' = fields.current_length
  /\ message_count' = message_count + 1

add_message(message, tool_name) ==
  /\ message_count < MaxMessages
  /\ Counted(Added(message_history, current_length, message_count, message, tool_name))
  /\ Monitored("add_message", message, None)

wrap_tool_response(tool_name, tool_result) ==
  /\ message_count < MaxMessages
  /\ LET check == CheckResult(current_length, message_count, tool_result)
     IN  /\ Counted(Added(message_history, current_length, message_count,
                          Recorded(check, tool_result), tool_name))
         /\ Monitored("wrap_tool_response", tool_result, Wrapped(check, tool_result))

NextMonitor ==
  \/ \E new_message \in Messages : check_context(new_message)
  \/ \E message \in Messages, tool_name \in Tools : add_message(message, tool_name)
  \/ \E tool_result \in Messages, tool_name \in Tools :
       wrap_tool_response(tool_name, tool_result)

NextFiles ==
  \/ \E folder_path \in Paths, include_hidden \in BOOLEAN :
       list_dropbox_folder(folder_path, include_hidden)
  \/ \E file_path \in Paths : read_dropbox_file(file_path)
  \/ \E content \in Contents, file_path \in Paths, overwrite \in BOOLEAN :
       save_to_dropbox(content, file_path, overwrite)
  \/ \E source_path \in Paths, dest_path \in Paths : copy_file(source_path, dest_path)
  \/ \E source_path \in Paths, dest_path \in Paths : move_file(source_path, dest_path)
  \/ \E path \in Paths : delete_file(path)
  \/ \E path \in Paths : create_folder(path)
  \/ \E query \in Queries, search_type \in SearchTypes, path \in Paths :
       search_dropbox(query, search_type, path)

Next ==
  \E c \in 1..NumCalls :
    \/ Construct(c)
    \/ Parse(c)
    \/ Generate(c)
    \/ Validate(c)
    \/ Return(c)
    \/ Except(c)

\* the state when the given calls have been made, each of a text and in an
\* environment of the given ones, and none has started
Start(calls, texts, environments) ==
  /\ description \in [calls -> texts]
  /\ validate \in [calls -> BOOLEAN]
  /\ installed \in [calls -> environments]
  /\ pc = [c \in calls |-> "construct"]
  /\ animation_request = [c \in calls |-> None]
  /\ manim_code = [c \in calls |-> None]
  /\ validation_report = [c \in calls |-> EmptyDict]
  /\ exc = [c \in calls |-> None]
  /\ result = [c \in calls |-> None]
  /\ Imported
  /\ Monitoring

\* one call, of any description, with and without the model installed
Init == Start({1}, Descriptions, BOOLEAN)

Spec == Init /\ [][Next]_vars

\* NumCalls concurrent calls, the model installed
InitConc == Start(1..NumCalls, ConcDescriptions, {TRUE})

SpecConc == InitConc /\ [][Next]_vars

\* the file operations, no call of the pipeline made
InitFiles == Start({}, {}, {})

SpecFiles == InitFiles /\ [][NextFiles]_vars

\* the calls of the monitor, no call of the pipeline made
InitMonitor == Start({}, {}, {})

SpecMonitor == InitMonitor /\ [][NextMonitor]_vars

(***************************************************************************)
(* Properties.                                                             *)
(***************************************************************************)
\* the call has returned a dict to its caller
Returned(c) == c \in Calls /\ result[c] # None

\* the dict the call returned
Res(c) == result[c][1]

\* the request of a call that returned success
Req(c) == Res(c).animation_request[1]

\* the description of the call as parse normalises it
Normalised == [t \in Texts |-> Strip(Lower(t))]

Norm(c) == Normalised[description[c]]

\* the positions of a list whose entry has the given type
OfType(list, type) == {k \in DOMAIN list : list[k].type = type}

\* the text matches the pattern of the object type sphere
HasSphereMatch(t) == Search(object_patterns[1].pattern, t)

\* C1: a text with a projection keyword ('project' or 'map') and no sphere
\* match is answered with success = false and an error that mentions
\* 'sphere', and no request with a projection and no sphere is ever built.
C1_ProjectionNeedsSphere ==
  \A c \in Calls :
    /\ (/\ Returned(c)
        /\ Contains(Norm(c), "project") \/ Contains(Norm(c), "map")
        /\ ~HasSphereMatch(Norm(c)))
       => (~Res(c).success /\ Contains(Res(c).error, "sphere"))
    /\ animation_request[c] # None
       => (OfType(animation_request[c][1].transformations, "projection") # {}
           => OfType(animation_request[c][1].objects, "sphere") # {})

\* the vector objects of a text that are bracketed literals with coordinates
BracketVectors(t) ==
  SelectSeq(_extract_objects(t),
            LAMBDA obj : /\ obj.type = "vector"
                         /\ StartsAt(obj.value, 1, "[")
                         /\ "coordinates" \in DOMAIN obj)

\* the text holds two bracketed vector literals of different lengths
DifferingVectors(vs) ==
  \E j, k \in DOMAIN vs : Len(vs[j].coordinates) # Len(vs[k].coordinates)

\* C2: a text with two or more bracketed vector literals whose coordinate
\* lists differ in length is answered with success = false and an error
\* that mentions 'dimension'.
C2_DimensionMismatchFails ==
  \A c \in Calls :
    (Returned(c) /\ DifferingVectors(BracketVectors(Norm(c))))
    => (~Res(c).success /\ Contains(Res(c).error, "dimension"))

C2_Witness ==
  \E c \in Calls :
    Returned(c) /\ DifferingVectors(BracketVectors(Norm(c))) /\ ~Res(c).success

\* C3: a result is either a success with source and request snapshot, or a
\* failure with a non-empty error, no source and no request snapshot.
C3_ResultShape ==
  \A c \in Calls :
    Returned(c)
    => IF Res(c).success
       THEN Res(c).manim_code # None /\ Res(c).animation_request # None
       ELSE /\ Len(Res(c).error) > 0
            /\ Res(c).manim_code = None
            /\ Res(c).animation_request = None

C3_Witness == \E c \in Calls : Returned(c) /\ ~Res(c).success

\* C4: process_animation_request never lets an exception reach its caller,
\* whichever step raises.
C4_NoExceptionPropagates == \A c \in Calls : pc[c] # "raised"

\* the text holds no object, transformation or parameter keyword
NoKeywords(t) ==
  /\ \A k \in DOMAIN object_patterns : ~Search(object_patterns[k].pattern, t)
  /\ \A k \in DOMAIN transform_keywords : ~Contains(t, transform_keywords[k][2])
  /\ ~Search(Cat(<<NumberRe, DurationUnitRe>>), t)
  /\ \A word \in {"4k", "high quality", "ultra", "preview", "quick",
                  "artistic", "beautiful", "minimal", "simple"} : ~Contains(t, word)

\* the text matches a pattern of the concept at index k of concept_patterns
MatchesConcept(t, k) ==
  \E j \in DOMAIN concept_patterns[k].patterns :
    Search(concept_patterns[k].patterns[j], t)

\* the result is the success of a request without content
DefaultRequest(r) ==
  /\ r.success
  /\ r.animation_request[1].animation_type = GEOMETRIC_TRANSFORM
  /\ r.animation_request[1].objects = <<>>
  /\ r.animation_request[1].transformations = <<>>
  /\ r.animation_request[1].parameters
       = [duration |-> FloatOf(3), quality |-> "standard", style |-> "academic"]

\* C5 as claimed: a text without object, transformation and parameter
\* keywords gives success with GEOMETRIC_TRANSFORM, no objects, no
\* transformations and the default parameters.
C5_NoKeywordsGiveDefault ==
  \A c \in Calls : (Returned(c) /\ NoKeywords(Norm(c))) => DefaultRequest(Res(c))

\* C5 as amended: the same, for a text that also matches no pattern of the
\* concepts gyrovector_operation and hyperbolic_space.
C5_NoKeywordsNoConceptGiveDefault ==
  \A c \in Calls :
    (/\ Returned(c)
     /\ NoKeywords(Norm(c))
     /\ ~MatchesConcept(Norm(c), 2)
     /\ ~MatchesConcept(Norm(c), 5))
    => DefaultRequest(Res(c))

C5_Witness ==
  \E c \in Calls :
    /\ Returned(c)
    /\ NoKeywords(Norm(c))
    /\ ~MatchesConcept(Norm(c), 2)
    /\ ~MatchesConcept(Norm(c), 5)
    /\ Len(Norm(c)) > 0
    /\ Res(c).success

\* a warning of the report names the coordinates and states norm >= 1
WarnedAbout(report, coordinates) ==
  \E j \in DOMAIN report.warnings :
    /\ Contains(report.warnings[j], ReprList(coordinates))
    /\ Contains(report.warnings[j], "norm >= 1")

\* C6: in the report of a validated VECTOR_OPERATION request, every vector
\* with coordinates of norm >= 1 has a warning that names its coordinates,
\* however many vectors there are, and a vector of norm < 1 has none.
C6_NormWarningForEveryVector ==
  \A c \in Calls :
    (/\ Returned(c)
     /\ Res(c).success
     /\ validate[c]
     /\ Req(c).animation_type = VECTOR_OPERATION)
    => \A k \in OfType(Req(c).objects, "vector") :
         "coordinates" \in DOMAIN Req(c).objects[k]
         => (NormAtLeastOne(Req(c).objects[k].coordinates)
             <=> WarnedAbout(Res(c).validation_report, Req(c).objects[k].coordinates))

\* the parts of the end-to-end scenario of the projected sphere that do not
\* count the planes
StereoResult(r) ==
  /\ r.success
  /\ Cardinality(OfType(r.animation_request[1].objects, "sphere")) = 1
  /\ Cardinality(OfType(r.animation_request[1].transformations, "projection")) = 1
  /\ Cardinality(OfType(r.animation_request[1].transformations, "rotation")) = 1
  /\ \A k \in OfType(r.animation_request[1].transformations, "rotation") :
       /\ "reference" \in DOMAIN r.animation_request[1].transformations[k].parameters
       /\ r.animation_request[1].transformations[k].parameters.reference = "pole"
  /\ r.animation_request[1].parameters
       = [duration |-> FloatOf(5), quality |-> "4k", style |-> "academic"]

\* C7 as claimed: the scenario gives success, exactly one sphere and exactly
\* one plane, one projection, one rotation with reference 'pole', and the
\* parameters {5.0, '4k', 'academic'}.
C7_StereoScenarioOnePlane ==
  \A c \in Calls :
    (Returned(c) /\ description[c] = StereoScenario)
    => (/\ StereoResult(Res(c))
        /\ Cardinality(OfType(Req(c).objects, "plane")) = 1)

\* C7 as amended: the same with exactly two planes, one for each mention of
\* a plane in the text ("polar plane" and " plane").
C7_StereoScenarioTwoPlanes ==
  \A c \in Calls :
    (Returned(c) /\ description[c] = StereoScenario)
    => (/\ StereoResult(Res(c))
        /\ Cardinality(OfType(Req(c).objects, "plane")) = 2
        /\ Len(Req(c).objects) = 3)

C7_Witness == \E c \in Calls : Returned(c) /\ description[c] = StereoScenario

\* C8: the scenario of the rotating plane gives success and exactly one
\* rotation, with angle 45.0 and unit 'degrees'.
C8_MobiusScenarioRotation ==
  \A c \in Calls :
    (Returned(c) /\ description[c] = MobiusScenario)
    => (/\ Res(c).success
        /\ Cardinality(OfType(Req(c).transformations, "rotation")) = 1
        /\ \A k \in OfType(Req(c).transformations, "rotation") :
             Req(c).transformations[k].parameters
               = (("angle" :> FloatOf(45)) @@ ("unit" :> "degrees")))

AloneGenerated(request, flag, code) ==
  SuccessResult(code,
                IF flag THEN AnimationValidator_validate(request, code) ELSE EmptyDict,
                request)

\* the result of a call that returns without any other call: the statements
\* of process_animation_request one after the other, parse having ended as p
AloneFrom(p, flag) ==
  IF p.raised # <<>> THEN FailureResult(p.raised[1])
  ELSE AloneGenerated(p.request[1], flag, generate(p.request[1]))

\* a step gives the call no other request and no other result than the call
\* has when run alone
AloneStep(c) ==
  /\ animation_request'[c] # animation_request[c]
     => animation_request'[c] = parse(Text(c)).request
  /\ result'[c] # result[c]
     => result'[c] = Some(AloneFrom(parse(Text(c)), validate[c]))

\* C10: under every interleaving of concurrent calls each call returns what
\* it returns when run alone, and the request of a call holds what parse
\* extracts from the description of that call only.
C10_CallsIndependent == [][\A c \in Calls : AloneStep(c)]_vars

C10_Witness ==
  \E c, d \in Calls :
    /\ c # d
    /\ Returned(c) /\ Returned(d)
    /\ description[c] # description[d]
    /\ Res(c).success /\ Res(d).success

\* the vector objects of a text that carry coordinates
CoordinateVectors(t) ==
  SelectSeq(_extract_objects(t),
            LAMBDA obj : obj.type = "vector" /\ "coordinates" \in DOMAIN obj)

\* C11: a vector whose numeric list cannot be parsed only loses its
\* coordinates: when the vectors that carry coordinates have lists of equal
\* length the call succeeds, whatever vectors without coordinates there are.
C11_UnparsedVectorNeverFails ==
  \A c \in Calls :
    (Returned(c) /\ ~DifferingVectors(CoordinateVectors(Norm(c))))
    => Res(c).success

\* C12: the findings of the validator are advisory: a call whose parsing and
\* generation succeeded returns success = true with the source generated,
\* whatever warnings and suggestions the report holds.
C12_FindingsAdvisory ==
  \A c \in Calls :
    /\ pc[c] = "except" => manim_code[c] = None
    /\ (Returned(c) /\ manim_code[c] # None)
       => (/\ Res(c).success
           /\ Res(c).manim_code = manim_code[c]
           /\ Res(c).validation_report = validation_report[c])

C12_Witness ==
  \E c \in Calls :
    /\ Returned(c)
    /\ manim_code[c] # None
    /\ "warnings" \in DOMAIN Res(c).validation_report
    /\ Len(Res(c).validation_report.warnings) > 0

\* C13: the objects of a request are in the order of their appearance in the
\* text: the start offsets of their matches increase, whatever their types.
C13_ObjectsInTextOrder ==
  \A c \in Calls :
    (Returned(c) /\ Res(c).success)
    => \A j, k \in DOMAIN Req(c).objects :
         j < k => Req(c).objects[j].position[1] < Req(c).objects[k].position[1]

\* the index in concept_patterns of the first entry with a pattern that
\* matches the text, 0 when there is none
FirstEntry(t) ==
  IF \E k \in DOMAIN concept_patterns : MatchesConcept(t, k)
  THEN Min({k \in DOMAIN concept_patterns : MatchesConcept(t, k)})
  ELSE 0

\* the category of an entry of concept_patterns; the entry rotation has no
\* category of its own: a text that matches it alone is a GEOMETRIC_TRANSFORM
CategoryOfEntry(k) ==
  IF k = 2 THEN VECTOR_OPERATION
  ELSE IF k = 5 THEN MANIFOLD_VISUALIZATION
  ELSE GEOMETRIC_TRANSFORM

\* C14: the category is decided by the first entry of concept_patterns with a
\* pattern that matches, entries after it have no influence, and without a
\* match the category is GEOMETRIC_TRANSFORM.
C14_FirstEntryDecides ==
  \A c \in Calls :
    (Returned(c) /\ Res(c).success)
    => Req(c).animation_type = CategoryOfEntry(FirstEntry(Norm(c)))

\* the text names a gyro-operation, a stereographic projection or a Möbius
\* transformation
NamesOtherConcept(t) ==
  \/ Search(concept_patterns[2].patterns[1], t)
  \/ MatchesConcept(t, 1)
  \/ MatchesConcept(t, 4)

\* C15: a text that matches a pattern of hyperbolic_space and names no
\* gyro-operation, stereographic projection or Möbius transformation is a
\* MANIFOLD_VISUALIZATION; the text of the transported gyrovector is one, with
\* duration 8.0.
C15_HyperbolicIsManifold ==
  \A c \in Calls :
    Returned(c)
    => /\ (MatchesConcept(Norm(c), 5) /\ ~NamesOtherConcept(Norm(c)))
          => (Res(c).success /\ Req(c).animation_type = MANIFOLD_VISUALIZATION)
       /\ description[c] = TransportScenario
          => (/\ Res(c).success
              /\ Req(c).animation_type = MANIFOLD_VISUALIZATION
              /\ Req(c).parameters.duration = FloatOf(8))

\* the text holds one of the words
ContainsAny(t, words) == \E word \in words : Contains(t, word)

\* the quality the rules give the text
QualityRule(t, quality) ==
  /\ ContainsAny(t, {"4k", "high quality", "ultra"}) => quality = "4k"
  /\ (~ContainsAny(t, {"4k", "high quality", "ultra"})
      /\ ContainsAny(t, {"preview", "quick"})) => quality = "preview"
  /\ ~ContainsAny(t, {"4k", "high quality", "ultra", "preview", "quick"})
     => quality = "standard"

\* the style the rules give the text
StyleRule(t, style) ==
  /\ ContainsAny(t, {"artistic", "beautiful"}) => style = "artistic"
  /\ (~ContainsAny(t, {"artistic", "beautiful"})
      /\ ContainsAny(t, {"minimal", "simple"})) => style = "minimalist"
  /\ ~ContainsAny(t, {"artistic", "beautiful", "minimal", "simple"})
     => style = "academic"

\* the duration the first match of a number of seconds gives
DurationRule(duration_match, duration) ==
  IF duration_match = <<>> THEN duration = FloatOf(3)
  ELSE duration = ParseFloat(duration_match[1].number)

\* C16: each parameter follows its own rules, the first that applies: 4k
\* before preview before standard; artistic before minimalist before
\* academic; the number of the first match of seconds, else 3.0.
C16_ParameterRules ==
  \A c \in Calls :
    (Returned(c) /\ Res(c).success)
    => /\ QualityRule(Norm(c), Req(c).parameters.quality)
       /\ StyleRule(Norm(c), Req(c).parameters.style)
       /\ DurationRule(SearchNumberUnit(DurationUnitRe, Norm(c)),
                       Req(c).parameters.duration)

C16_Witness ==
  \E c \in Calls :
    /\ Returned(c)
    /\ Res(c).success
    /\ Contains(Norm(c), "4k")
    /\ Contains(Norm(c), "preview")
    /\ Contains(Norm(c), "simple")

\* C17: in every request the duration is strictly positive, the quality is
\* one of preview, standard, 4k and the style is one of academic, artistic,
\* minimalist.
C17_ParametersInRange ==
  \A c \in Calls :
    animation_request[c] # None
    => /\ ~animation_request[c][1].parameters.duration.neg
       /\ animation_request[c][1].parameters.duration.mag > 0
       /\ animation_request[c][1].parameters.quality \in {"preview", "standard", "4k"}
       /\ animation_request[c][1].parameters.style
            \in {"academic", "artistic", "minimalist"}

\* the location is in one of the allowed folders of the base
InAllowedFolder(loc) ==
  \E k \in DOMAIN ALLOWED_DROPBOX_PATHS :
    Under(loc, dropbox_base \o <<ALLOWED_DROPBOX_PATHS[k]>>)

\* C18: whatever path it is given, no operation but search_dropbox reads,
\* writes, moves or deletes a location outside the allowed folders of the
\* Dropbox base; only a listing may read the base itself.
C18_NoAccessOutsideAllowedFolders ==
  (operation # None /\ operation[1].name # "search_dropbox")
    => \A access \in touched :
         \/ InAllowedFolder(access[2])
         \/ (operation[1].name = "list_dropbox_folder"
             /\ access = <<"read", dropbox_base>>)

\* the step is an operation that was given a path validate_dropbox_path rejects
RejectedStep ==
  /\ done' # done
  /\ \E k \in DOMAIN operation'[1].paths : ~validate_dropbox_path(operation'[1].paths[k])[1]

\* the step returns a dict of security_block = true and an error message, and
\* makes no access
BlockedStep ==
  /\ DOMAIN response'[1] = {"error", "security_block"}
  /\ response'[1].security_block = TRUE
  /\ response'[1].error # ""
  /\ touched' = {}

\* the step changes no file but the log, which it only appends to
OnlyLogged ==
  /\ dirs' = dirs
  /\ DOMAIN files' = DOMAIN files
  /\ \A l \in DOMAIN files :
       IF stream # None /\ l = stream[1]
       THEN StartsAt(files'[l], 1, files[l])
       ELSE files'[l] = files[l]

\* C19, as stated: an operation given a path that validate_dropbox_path
\* rejects returns security_block = true with an error message, makes no
\* access and leaves the whole filesystem as it was.
C19_RejectedLeavesFilesystem ==
  [][RejectedStep => (BlockedStep /\ dirs' = dirs /\ files' = files)]_vars

\* C19, amended: an operation given a path that validate_dropbox_path rejects
\* returns security_block = true with an error message, makes no access and
\* leaves the filesystem as it was but for the records appended to
\* security.log.
C19_RejectedOnlyLogs ==
  [][RejectedStep => (BlockedStep /\ OnlyLogged)]_vars

\* copy_file was given a source that is accepted and exists and a destination
\* that is rejected, and has returned
C19_Witness ==
  /\ operation = Some([name |-> "copy_file",
                       paths |-> <<"Media/a.txt", "SomeRandomFolder">>])
  /\ response[1].security_block
  /\ dropbox_base \o <<"SomeRandomFolder">> \notin DOMAIN files

\* the first name of a clean path
TopLevel(clean_path) == Split(clean_path, "/")[1]

AllowedNames == {ALLOWED_DROPBOX_PATHS[k] : k \in DOMAIN ALLOWED_DROPBOX_PATHS}

\* C20: validate_dropbox_path accepts a path only if the sanitised path is
\* empty or its top-level folder is one of ALLOWED_DROPBOX_PATHS, and it
\* blocks every path whose sanitised form holds an element of FORBIDDEN_PATHS.
C20_AcceptsOnlyAllowedFolders ==
  operation # None =>
    \A k \in DOMAIN operation[1].paths :
      LET path == operation[1].paths[k]
      IN  /\ validate_dropbox_path(path)[1]
               => \/ CleanPath(path) \in {"", "."}
                  \/ TopLevel(CleanPath(path)) \in AllowedNames
          /\ ForbiddenName(CleanPath(path)) => ~validate_dropbox_path(path)[1]

\* the unit word written after the first angle of a text: the match of
\* the angle pattern ends with 'degree' or the sign for degrees, or with 'rad'
WrittenUnit(angle_match) ==
  IF Contains(angle_match[1].whole, "degree") \/ Contains(angle_match[1].whole, "°")
  THEN "degrees" ELSE "radians"

\* the text lies inside the window of each of its keywords
InOneWindow(t) == Len(t) <= ContextWindow

\* C22: a rotation whose window holds a number followed by 'degree' or the
\* sign for degrees has that number as angle and the unit 'degrees', one
\* followed by 'rad' has the unit 'radians': the recorded unit agrees with
\* the unit word written in the text.
C22_UnitAgreesWithText ==
  \A c \in Calls :
    (/\ Returned(c) /\ Res(c).success
     /\ InOneWindow(Norm(c))
     /\ SearchNumberUnit(AngleUnitRe, Norm(c)) # <<>>)
    => \A k \in OfType(Req(c).transformations, "rotation") :
         LET parameters == Req(c).transformations[k].parameters
         IN  /\ {"angle", "unit"} \subseteq DOMAIN parameters
             /\ parameters.angle
                  = ParseFloat(SearchNumberUnit(AngleUnitRe, Norm(c))[1].number)
             /\ parameters.unit = WrittenUnit(SearchNumberUnit(AngleUnitRe, Norm(c)))

\* the list written in a vector or point match: the text between the
\* opening bracket or parenthesis and the closing one
WrittenList(value) ==
  SubSeq(value, Min({i \in 1..Len(value) : Char(value, i) \in {"[", "("}}) + 1,
         Len(value) - 1)

\* C23: a vector or point match whose list is well formed, in any of the
\* forms '[a,b,c]', 'vector(a,b,c)', 'point (a,b)' and 'point at (a,b)',
\* carries coordinates equal to the numbers of the list in order.
C23_WellFormedListHasCoordinates ==
  \A c \in Calls :
    (Returned(c) /\ Res(c).success)
    => \A k \in OfType(Req(c).objects, "vector") \cup OfType(Req(c).objects, "point") :
         FloatsOf(Split(WrittenList(Req(c).objects[k].value), ",")) # <<>>
         => /\ "coordinates" \in DOMAIN Req(c).objects[k]
            /\ Req(c).objects[k].coordinates
                 = FloatsOf(Split(WrittenList(Req(c).objects[k].value), ","))[1]

\* the number of places of a text where lit stands
Occurrences(t, lit) ==
  Cardinality({i \in 1..(Len(t) - Len(lit) + 1) : StartsAt(t, i, lit)})

\* the text that defines the identifier of the object at position k
Definition(k) == "        obj_" \o NatToStr(k - 1) \o " = "

\* C24: the generated source holds exactly one construction snippet for
\* each object of the request, of whatever kind, and the snippet of the
\* object at position i defines the identifier obj_i.
C24_OneSnippetPerObject ==
  \A c \in Calls :
    manim_code[c] # None
    => \A k \in DOMAIN animation_request[c][1].objects :
         Occurrences(manim_code[c][1], Definition(k)) = 1

\* C25: the generated source holds exactly one animation snippet, one call
\* of self.play, for each transformation of the request, of whatever kind,
\* and the reference of a transformation is substituted into the source.
C25_OneSnippetPerTransformation ==
  \A c \in Calls :
    manim_code[c] # None
    => /\ Occurrences(manim_code[c][1], "self.play(")
            = Len(animation_request[c][1].transformations)
       /\ \A k \in DOMAIN animation_request[c][1].transformations :
            LET parameters == animation_request[c][1].transformations[k].parameters
            IN  "reference" \in DOMAIN parameters
                => Contains(manim_code[c][1], parameters.reference)

\* the keywords of the entries of a list of transformations, in order
Keywords(transformations) ==
  [k \in DOMAIN transformations |-> transformations[k].keyword]

\* the position of a keyword in the table of the trigger keywords
TablePosition(keyword) ==
  CHOOSE j \in DOMAIN transform_keywords : transform_keywords[j][2] = keyword

\* C26: the transformations of a returned request hold exactly one entry
\* for each trigger keyword that occurs in the normalised text as a
\* substring (two keywords of one kind give two entries, a repeated keyword
\* gives one); each entry has the kind of its keyword, and the entries stand
\* in the order of the keyword table.
C26_OneEntryPerKeyword ==
  \A c \in Calls :
    (Returned(c) /\ Res(c).success)
    => LET transformations == Req(c).transformations
           text == Norm(c)
       IN  /\ \A j \in DOMAIN transform_keywords :
                Cardinality({k \in DOMAIN transformations :
                               transformations[k].keyword = transform_keywords[j][2]})
                  = IF Contains(text, transform_keywords[j][2]) THEN 1 ELSE 0
           /\ \A k \in DOMAIN transformations :
                /\ \E j \in DOMAIN transform_keywords :
                     transform_keywords[j] = <<transformations[k].type,
                                               transformations[k].keyword>>
                /\ \A i \in 1..(k - 1) :
                     TablePosition(transformations[i].keyword)
                       < TablePosition(transformations[k].keyword)

\* a request with two entries of one kind, from two keywords, in a text
\* that holds one of the two keywords twice
C26_Witness ==
  \E c \in Calls :
    /\ Returned(c) /\ Res(c).success
    /\ Keywords(Req(c).transformations) = <<"scale", "resize">>
    /\ Occurrences(Norm(c), "scale") = 2

\* the source uses a name only where it also defines it
DefinedWhereUsed(code, use, definition) ==
  Contains(code, use) => Contains(code, definition)

\* C27: the generated source never refers to a name it does not define:
\* where the rotation snippet uses obj_0 the source defines obj_0, and
\* where the projection snippet uses sphere and stereo_project the source
\* defines them.
C27_NoUndefinedName ==
  \A c \in Calls :
    manim_code[c] # None
    => /\ DefinedWhereUsed(manim_code[c][1], "Rotate(obj_0,", Definition(1))
       /\ DefinedWhereUsed(manim_code[c][1], "sphere.get_points()", " sphere = ")
       /\ DefinedWhereUsed(manim_code[c][1], "stereo_project(point)",
                           "def stereo_project(")

\* the report holds a warning of numerical instability
WarnsInstability(report) ==
  /\ "warnings" \in DOMAIN report
  /\ \E k \in DOMAIN report.warnings :
       StartsAt(report.warnings[k], 1, "Potential numerical instability")

\* the head of a template: the comment of its first line that names it,
\* longer than what the line shares with the comments of the snippets
Heading(template) == SubSeq(template, 1, 40)

\* C28: the template that _select_template chooses never reaches the source
\* that generate returns: the source of a call that returned success holds
\* neither the head of the template nor '/ (1 -' nor 'norm(', and so its
\* report holds no warning of numerical instability.
C28_TemplateNeverEmitted ==
  \A c \in Calls :
    (Returned(c) /\ Res(c).success)
    => /\ _select_template(Req(c)) # ""
          => ~Contains(Res(c).manim_code[1], Heading(_select_template(Req(c))))
       /\ ~Contains(Res(c).manim_code[1], "/ (1 -")
       /\ ~Contains(Res(c).manim_code[1], "norm(")
       /\ ~WarnsInstability(Res(c).validation_report)

\* a validated call has returned success for a request that has a template
C28_Witness ==
  \E c \in Calls :
    /\ Returned(c) /\ Res(c).success /\ validate[c]
    /\ _select_template(Req(c)) = _load_templates["stereographic_projection"]

\* the validator has been run for the call
ReportMade(c) == validate[c] /\ pc[c] \in {"return", "done"} /\ manim_code[c] # None

\* C29: every report of AnimationValidator.validate has
\* mathematical_accuracy = true, also when its warnings are not empty.
C29_AccuracyAlwaysTrue ==
  \A c \in Calls :
    ReportMade(c)
    => /\ "mathematical_accuracy" \in DOMAIN validation_report[c]
       /\ validation_report[c].mathematical_accuracy = TRUE

\* the validator has returned a report with a warning
C29_Witness ==
  \E c \in Calls :
    /\ ReportMade(c)
    /\ validation_report[c].warnings # <<>>
    /\ validation_report[c].mathematical_accuracy

\* C21: whatever messages wrap_tool_response and add_message are given, the
\* length the monitor tracks never exceeds MAX_CHARS.
C21_LengthWithinLimit == current_length <= MAX_CHARS

\* the sum of the 'length' fields of the entries of a history
LengthSum(history) ==
  LET RECURSIVE Sum(_)
      Sum(k) == IF k = 0 THEN 0 ELSE history[k].length + Sum(k - 1)
  IN  Sum(Len(history))

\* the call made last is check_context
Checked == monitored # None /\ monitored[1].name = "check_context"

\* C30: after any calls of check_context and add_message, current_length is
\* the sum of the lengths of the entries of message_history, the entries
\* that auto-truncation removed not counted; and a call of check_context
\* changes none of current_length, message_count and message_history.
C30_LengthIsSumOfHistory ==
  /\ [](current_length = LengthSum(message_history))
  /\ [][Checked' => UNCHANGED <<current_length, message_count, message_history>>]_vars

\* entries have been removed from the history, and check_context has been
\* called after that
C30_Witness ==
  /\ Len(message_history) < message_count
  /\ Checked
  /\ current_length = LengthSum(message_history)

====
